---- MODULE Spec2Model ----
(***************************************************************************)
(* State-machine model of SignalAlertSystemV3                              *)
(* (src/sol1小时预警V3_对齐版.py): the position life cycle (open_position, *)
(* monitor_position, handle_manual_close), the OI collector and the        *)
(* monitoring loop.                                                        *)
(*                                                                         *)
(* Number representation (the program computes with floats; the model      *)
(* uses exact integers on a grid on which every product below is exact):   *)
(*   prices            integer, 1 unit = 0.001 USDT, multiples of 1000     *)
(*   sl, tp1, tp2,                                                         *)
(*   trail_offset,                                                         *)
(*   cost_zone_pct     per mille (3.0 % = 30)                              *)
(*   bandwidth,squeeze tenths of a percent (4.0 % = 40)                    *)
(*   oi_change_pct,                                                        *)
(*   oi_price_divergence,                                                  *)
(*   oi_change_filter  basis points (-0.01 = -100)                         *)
(*   position_size     percent (0.30 = 30)                                 *)
(*   time              whole hours                                         *)
(* A ratio a/b compared with a rate r per mille is compared as             *)
(* a*1000 >= r*b (b > 0), which is the comparison of the exact values.     *)
(***************************************************************************)
EXTENDS Integers, Sequences, FiniteSets, TLC

VARIABLES
    current_position,       \* self.current_position (the dict)
    position_file,          \* contents of sol_position_state.json
    signal_history_file,    \* contents of sol_signal_history.json
    oi_history,             \* self.oi_history (deque)
    oi_changes_history,     \* self.oi_changes_history (deque)
    now,                    \* wall clock, hours
    last,                   \* observation of the last operation on the position
    oi_sync,                \* self.oi_lock and the collector's place in its
                            \* critical section
    call                    \* the arguments of a direct call of one method

vars == <<current_position, position_file, signal_history_file,
          oi_history, oi_changes_history, now, last, oi_sync, call>>

\* not touched by the monitoring loop as modelled by Spec
aux == <<oi_sync, call>>

(***************************************************************************)
(* Bounds of the model                                                     *)
(***************************************************************************)
\* clock readings 0, HoursPerStep, ..., MaxSteps*HoursPerStep
MaxSteps == 1
HoursPerStep == 80
\* capacity of the two OI deques in the model (the program's is 576)
OiMaxLen == 2
\* cap on trend_continuation_count (unbounded in the program)
MaxContinuation == 2
\* number of OI samples taken in the model of the collector thread
MaxSamples == 4
\* longest OI history handed to calculate_hourly_oi_change
MaxHistory == 13
\* hours the wall clock advances in the model of monitoring_loop
MaxLoopHours == 2

\* prices a ticker or a candle can show
Prices == {92000, 96000, 100000, 104000, 108000}
\* closes of the in-progress candle at a signal check (entry prices)
EntryPrices == {100000, 104000}
\* open-interest readings
OiValues == {98, 99, 100}

(***************************************************************************)
(* Configuration                                                           *)
(***************************************************************************)
PARAMS ==
    [sl |-> 30, tp1 |-> 40, tp2 |-> 80,
     trail_after_tp1 |-> TRUE, flip_stop_to_breakeven |-> TRUE,
     trail_offset |-> 6, squeeze |-> 40, oi_change_filter |-> -100,
     time_stop_hours |-> 80, cost_zone_pct |-> 5,
     position_size |-> 30, leverage |-> 5]

(***************************************************************************)
(* Time values.  A Python datetime is tz-aware or naive; str() and         *)
(* fromisoformat keep the offset, so awareness survives the JSON file.     *)
(***************************************************************************)
None == [kind |-> "None", t |-> 0, aware |-> FALSE]
\* datetime.now(timezone.utc)
UtcNow(t) == [kind |-> "datetime", t |-> t, aware |-> TRUE]
\* pd.to_datetime(ts, unit='ms'): the candle index is tz-naive
IndexTs(t) == [kind |-> "datetime", t |-> t, aware |-> FALSE]

Abs(x) == IF x < 0 THEN -x ELSE x

Max(S) == CHOOSE x \in S : \A y \in S : y <= x
Min(S) == CHOOSE x \in S : \A y \in S : x <= y

(***************************************************************************)
(* __init__: the flat position                                             *)
(***************************************************************************)
InitialPosition ==
    [status |-> "none", entry_price |-> 0, entry_time |-> None,
     stop_loss |-> 0, take_profit1 |-> 0, take_profit2 |-> 0,
     trail_stop |-> 0, tp1_achieved |-> FALSE,
     breakeven_activated |-> FALSE,
     position_size |-> PARAMS.position_size, leverage |-> PARAMS.leverage,
     current_pnl |-> 0, current_pnl_pct |-> 0, hold_hours |-> 0,
     time_stop_activated |-> FALSE,
     original_tp1 |-> 0, original_tp2 |-> 0, original_signal |-> 0,
     original_signal_time |-> None, trend_continuation_count |-> 0]

(***************************************************************************)
(* Signal quality score and position size                                  *)
(***************************************************************************)
\* sub-score 1 (COO stability); returns the addition to score and details
CooScore(bw, coo) ==
    IF bw < PARAMS.squeeze
    THEN IF coo > 30 /\ coo <= 50
         THEN IF 35 <= coo /\ coo <= 45 THEN [add |-> 25, detail |-> 25]
              ELSE IF coo < 35 THEN [add |-> 20, detail |-> 20]
              ELSE [add |-> 15, detail |-> 15]
         ELSE IF coo < 60 /\ coo >= 50
         THEN IF 52 <= coo /\ coo <= 58 THEN [add |-> 25, detail |-> 25]
              ELSE IF coo > 58 THEN [add |-> 20, detail |-> 20]
              ELSE [add |-> 15, detail |-> 15]
         ELSE IF coo <= 20 THEN [add |-> 20, detail |-> 20]
              ELSE [add |-> 15, detail |-> 15]
    ELSE IF 70 <= coo /\ coo <= 80 THEN [add |-> 25, detail |-> 25]
         ELSE IF 20 <= coo /\ coo <= 30 THEN [add |-> 25, detail |-> 25]
         ELSE IF coo > 80 \/ coo < 20 THEN [add |-> 10, detail |-> 10]
         \* the last branch sets details only; score is not increased
         ELSE [add |-> 0, detail |-> 15]

\* sub-score 2 (bandwidth)
BwScore(bw) ==
    IF bw < 25 THEN 30
    ELSE IF bw < 30 THEN 25
    ELSE IF bw < 40 THEN 20
    ELSE IF bw < 50 THEN 10
    ELSE 5

\* mutation: the penalty is applied from a divergence of -1% on (<=)
OiScore_PenaltyInclusive(oi_change, oi_divergence) ==
    LET base == IF oi_change > 100 THEN 25
                ELSE IF oi_change > 0 THEN 15
                ELSE IF oi_change > -100 THEN 5
                ELSE 0
    IN  IF oi_divergence <= -100 THEN base - 15 ELSE base

\* sub-score 3 (OI support, with the divergence penalty)
OiScore(oi_change, oi_divergence) ==
    LET base == IF oi_change > 100 THEN 25
                ELSE IF oi_change > 0 THEN 15
                ELSE IF oi_change > -100 THEN 5
                ELSE 0
    IN  IF oi_divergence < -100 THEN base - 15 ELSE base

\* sub-score 4 (breakout quality)
BreakScore(c, l, h, ma20) ==
    LET p_bull == (l <= ma20) /\ (c > ma20)
        p_bear == (h >= ma20) /\ (c < ma20)
        dist   == IF p_bull THEN c - ma20 ELSE ma20 - c
        \* 0.1 <= dist/ma20*100 <= 1.0
        inWindow == dist * 1000 >= ma20 /\ dist * 100 <= ma20
    IN  IF p_bull \/ p_bear
        THEN IF inWindow THEN 20 ELSE 15
        ELSE 0

calculate_dynamic_position_score(c, l, h, ma20, bw, coo, oi_change, oi_divergence) ==
    LET cs == CooScore(bw, coo)
        bs == BwScore(bw)
        os == OiScore(oi_change, oi_divergence)
        ks == BreakScore(c, l, h, ma20)
        score == cs.add + bs + os + ks
        clamped == IF score > 100 THEN 100 ELSE score
    IN  [total_score |-> IF clamped < 0 THEN 0 ELSE clamped,
         details |-> [coo_score |-> cs.detail, bw_score |-> bs,
                      oi_score |-> os, break_score |-> ks]]

\* mutation: the top tier starts above 70 (score > 70)
get_dynamic_position_size_v2_Above70(score) ==
    IF score > 70 THEN 35
    ELSE IF score >= 55 THEN 32
    ELSE IF score >= 40 THEN PARAMS.position_size
    ELSE IF score >= 25 THEN 28
    ELSE 25

get_dynamic_position_size_v2(score) ==
    IF score >= 70 THEN 35
    ELSE IF score >= 55 THEN 32
    ELSE IF score >= 40 THEN PARAMS.position_size
    ELSE IF score >= 25 THEN 28
    ELSE 25

(***************************************************************************)
(* Signal detection                                                        *)
(***************************************************************************)
\* mutation: the divergence test (lines 915-917) is missing
check_oi_filter_ChangeOnly(row_data) ==
    IF row_data.oi_change_pct < PARAMS.oi_change_filter
    THEN [blocked |-> TRUE, reason |-> "oi_change"]
    ELSE [blocked |-> FALSE, reason |-> ""]

\* returns [blocked, reason]
check_oi_filter(row_data) ==
    IF row_data.oi_change_pct < PARAMS.oi_change_filter
    THEN [blocked |-> TRUE, reason |-> "oi_change"]
    ELSE IF row_data.oi_price_divergence < PARAMS.oi_change_filter
    THEN [blocked |-> TRUE, reason |-> "oi_divergence"]
    ELSE [blocked |-> FALSE, reason |-> ""]

\* mutation: the length test (lines 923-924) is missing
check_signal_NoLengthTest(df) ==
    LET latest == df.latest
        p_bull == (latest.l <= latest.ma20) /\ (latest.c > latest.ma20)
        p_bear == (latest.h >= latest.ma20) /\ (latest.c < latest.ma20)
        is_sqz == latest.bandwidth < PARAMS.squeeze
        sig == IF is_sqz
               THEN IF p_bull /\ latest.coo > 30 THEN 1
                    ELSE IF p_bear /\ latest.coo < 60 THEN -1
                    ELSE 0
               ELSE IF latest.coo > 80 /\ p_bull THEN 1
               ELSE IF latest.coo < 20 /\ p_bear THEN -1
               ELSE 0
        flt == check_oi_filter([oi_change_pct |-> latest.oi_change_pct,
                                oi_price_divergence |-> latest.oi_price_divergence])
    IN  IF sig # 0
        THEN IF flt.blocked THEN [signal |-> 0, reason |-> flt.reason]
             ELSE [signal |-> sig, reason |-> "signal"]
        ELSE [signal |-> 0, reason |-> "none"]

\* mutation: the extreme bands include their end points (>= 80, <= 20)
check_signal_ExtremeInclusive(df) ==
    IF df.len < 50 THEN [signal |-> 0, reason |-> "insufficient"]
    ELSE
    LET latest == df.latest
        p_bull == (latest.l <= latest.ma20) /\ (latest.c > latest.ma20)
        p_bear == (latest.h >= latest.ma20) /\ (latest.c < latest.ma20)
        is_sqz == latest.bandwidth < PARAMS.squeeze
        sig == IF is_sqz
               THEN IF p_bull /\ latest.coo > 30 THEN 1
                    ELSE IF p_bear /\ latest.coo < 60 THEN -1
                    ELSE 0
               ELSE IF latest.coo >= 80 /\ p_bull THEN 1
               ELSE IF latest.coo <= 20 /\ p_bear THEN -1
               ELSE 0
        flt == check_oi_filter([oi_change_pct |-> latest.oi_change_pct,
                                oi_price_divergence |-> latest.oi_price_divergence])
    IN  IF sig # 0
        THEN IF flt.blocked THEN [signal |-> 0, reason |-> flt.reason]
             ELSE [signal |-> sig, reason |-> "signal"]
        ELSE [signal |-> 0, reason |-> "none"]

\* df = [len, latest (the row iloc[-2]), current (the row iloc[-1])]
check_signal(df) ==
    IF df.len < 50 THEN [signal |-> 0, reason |-> "insufficient"]
    ELSE
    LET latest == df.latest
        p_bull == (latest.l <= latest.ma20) /\ (latest.c > latest.ma20)
        p_bear == (latest.h >= latest.ma20) /\ (latest.c < latest.ma20)
        is_sqz == latest.bandwidth < PARAMS.squeeze
        sig == IF is_sqz
               THEN IF p_bull /\ latest.coo > 30 THEN 1
                    ELSE IF p_bear /\ latest.coo < 60 THEN -1
                    ELSE 0
               ELSE IF latest.coo > 80 /\ p_bull THEN 1
               ELSE IF latest.coo < 20 /\ p_bear THEN -1
               ELSE 0
        flt == check_oi_filter([oi_change_pct |-> latest.oi_change_pct,
                                oi_price_divergence |-> latest.oi_price_divergence])
    IN  IF sig # 0
        THEN IF flt.blocked THEN [signal |-> 0, reason |-> flt.reason]
             ELSE [signal |-> sig, reason |-> "signal"]
        ELSE [signal |-> 0, reason |-> "none"]

(***************************************************************************)
(* Persistence                                                             *)
(***************************************************************************)
\* json.dump(..., default=str): a datetime is written as its str()
Str(d) == IF d.kind = "datetime" THEN [d EXCEPT !.kind = "str"] ELSE d

JsonDump(pos) ==
    [pos EXCEPT !.entry_time = Str(pos.entry_time),
                !.original_signal_time = Str(pos.original_signal_time)]

NoPositionFile == [exists |-> FALSE, position |-> JsonDump(InitialPosition)]

\* save_position_state: the file holds the dumped current position
save_position_state(pos) == [exists |-> TRUE, position |-> JsonDump(pos)]

NoSignalHistoryFile ==
    [exists |-> FALSE, signal_type |-> 0, signal_time |-> None,
     entry_price |-> 0, tp1_price |-> 0, tp2_price |-> 0,
     continuation_count |-> 0]

\* datetime.now().isoformat() (line 380): local time without an offset
NowIso(t) == [kind |-> "str", t |-> t, aware |-> FALSE]

\* save_signal_history at time t, called after current_position has been
\* replaced
save_signal_history(pos, signal, entry_price, tp1, tp2, t) ==
    [exists |-> TRUE, signal_type |-> signal, signal_time |-> NowIso(t),
     entry_price |-> entry_price, tp1_price |-> tp1, tp2_price |-> tp2,
     continuation_count |-> pos.trend_continuation_count]

\* datetime.fromisoformat: the offset, if written, is kept
FromIso(d) == [d EXCEPT !.kind = "datetime"]

\* load_position_state on a freshly constructed object; confirm is the
\* operator's answer to input() (line 742).  Returns the position and the
\* file (removed at line 772 when the operator declines)
load_position_state(file, confirm) ==
    IF ~file.exists
    THEN [pos |-> InitialPosition, file |-> file]
    ELSE LET saved_position == file.position
         IN  IF saved_position.status # "none"
             THEN IF confirm
                  THEN [pos |-> [saved_position EXCEPT
                                   !.entry_time =
                                       IF @.kind = "str" THEN FromIso(@)
                                       ELSE @,
                                   !.original_signal_time =
                                       IF @.kind = "str" THEN FromIso(@)
                                       ELSE @],
                        file |-> file]
                  ELSE [pos |-> InitialPosition, file |-> NoPositionFile]
             ELSE [pos |-> InitialPosition, file |-> file]

\* load_signal_history, run by __init__ after load_position_state
load_signal_history(pos, history) ==
    IF history.exists /\ history.signal_type # 0
    THEN [pos EXCEPT
            !.original_signal = history.signal_type,
            !.original_signal_time =
                IF history.signal_time.kind # "None"
                THEN FromIso(history.signal_time) ELSE None,
            !.original_tp1 = history.tp1_price,
            !.original_tp2 = history.tp2_price,
            !.trend_continuation_count = history.continuation_count]
    ELSE pos

(***************************************************************************)
(* open_position                                                           *)
(***************************************************************************)
\* mutation: the flip test (line 986) is missing, so any remembered signal
\* makes the new one a continuation
is_same_trend_continuation_AnyRemembered(pos, signal) ==
    pos.original_signal # 0

is_same_trend_continuation(pos, signal) ==
    IF pos.original_signal = 0 THEN FALSE
    ELSE IF pos.original_signal # signal THEN FALSE
    ELSE TRUE

\* lines 1000-1023: the position size from the closed candle's score
DynamicPosSize(df) ==
    IF df.present /\ df.len >= 2
    THEN LET latest == df.latest
         IN  get_dynamic_position_size_v2(
                 calculate_dynamic_position_score(
                     latest.c, latest.l, latest.h, latest.ma20,
                     latest.bandwidth, latest.coo,
                     latest.oi_change_pct,
                     latest.oi_price_divergence).total_score)
    ELSE PARAMS.position_size

\* lines 1033/1048: the fresh stop-loss
NewStopLoss(signal, entry_price) ==
    IF signal > 0 THEN (entry_price * (1000 - PARAMS.sl)) \div 1000
    ELSE (entry_price * (1000 + PARAMS.sl)) \div 1000

\* mutation: a continuation computes new targets like a fresh trend
TakeProfits_AlwaysFresh(pos, signal, entry_price, is_continuation) ==
    IF signal > 0
    THEN [tp1 |-> (entry_price * (1000 + PARAMS.tp1)) \div 1000,
          tp2 |-> (entry_price * (1000 + PARAMS.tp2)) \div 1000]
    ELSE [tp1 |-> (entry_price * (1000 - PARAMS.tp1)) \div 1000,
          tp2 |-> (entry_price * (1000 - PARAMS.tp2)) \div 1000]

\* lines 1035-1043 / 1050-1058: the take-profit targets
TakeProfits(pos, signal, entry_price, is_continuation) ==
    IF is_continuation
    THEN [tp1 |-> pos.original_tp1, tp2 |-> pos.original_tp2]
    ELSE IF signal > 0
    THEN [tp1 |-> (entry_price * (1000 + PARAMS.tp1)) \div 1000,
          tp2 |-> (entry_price * (1000 + PARAMS.tp2)) \div 1000]
    ELSE [tp1 |-> (entry_price * (1000 - PARAMS.tp1)) \div 1000,
          tp2 |-> (entry_price * (1000 - PARAMS.tp2)) \div 1000]

\* mutation: the achievement flags of the earlier position are carried over
open_position_KeepFlags(pos, signal, entry_price, df, t) ==
    LET is_continuation == is_same_trend_continuation(pos, signal)
        tp == TakeProfits(pos, signal, entry_price, is_continuation)
    IN  [pos EXCEPT
           !.status = IF signal > 0 THEN "long" ELSE "short",
           !.entry_price = entry_price,
           !.entry_time = UtcNow(t),
           !.stop_loss = NewStopLoss(signal, entry_price),
           !.take_profit1 = tp.tp1,
           !.take_profit2 = tp.tp2,
           !.position_size = DynamicPosSize(df),
           !.original_tp1 = IF ~is_continuation THEN tp.tp1 ELSE @,
           !.original_tp2 = IF ~is_continuation THEN tp.tp2 ELSE @,
           !.original_signal = IF ~is_continuation THEN signal ELSE @,
           !.original_signal_time = IF ~is_continuation THEN UtcNow(t) ELSE @,
           !.trend_continuation_count = IF is_continuation THEN @ + 1 ELSE 0]

\* mutation: a remembered original_signal is kept at a fresh open
open_position_KeepSignal(pos, signal, entry_price, df, t) ==
    LET is_continuation == is_same_trend_continuation(pos, signal)
        tp == TakeProfits(pos, signal, entry_price, is_continuation)
    IN  [status |-> IF signal > 0 THEN "long" ELSE "short",
         entry_price |-> entry_price,
         entry_time |-> UtcNow(t),
         stop_loss |-> NewStopLoss(signal, entry_price),
         take_profit1 |-> tp.tp1,
         take_profit2 |-> tp.tp2,
         trail_stop |-> 0,
         tp1_achieved |-> FALSE,
         breakeven_activated |-> FALSE,
         position_size |-> DynamicPosSize(df),
         leverage |-> PARAMS.leverage,
         current_pnl |-> 0,
         current_pnl_pct |-> 0,
         hold_hours |-> 0,
         time_stop_activated |-> FALSE,
         original_tp1 |-> IF ~is_continuation THEN tp.tp1 ELSE pos.original_tp1,
         original_tp2 |-> IF ~is_continuation THEN tp.tp2 ELSE pos.original_tp2,
         original_signal |-> IF pos.original_signal = 0 THEN signal
                             ELSE pos.original_signal,
         original_signal_time |-> IF ~is_continuation THEN UtcNow(t)
                                  ELSE pos.original_signal_time,
         trend_continuation_count |->
             IF is_continuation THEN pos.trend_continuation_count + 1 ELSE 0]

\* lines 1064-1086: the new current_position
open_position(pos, signal, entry_price, df, t) ==
    LET is_continuation == is_same_trend_continuation(pos, signal)
        tp == TakeProfits(pos, signal, entry_price, is_continuation)
    IN  [status |-> IF signal > 0 THEN "long" ELSE "short",
         entry_price |-> entry_price,
         entry_time |-> UtcNow(t),
         stop_loss |-> NewStopLoss(signal, entry_price),
         take_profit1 |-> tp.tp1,
         take_profit2 |-> tp.tp2,
         trail_stop |-> 0,
         tp1_achieved |-> FALSE,
         breakeven_activated |-> FALSE,
         position_size |-> DynamicPosSize(df),
         leverage |-> PARAMS.leverage,
         current_pnl |-> 0,
         current_pnl_pct |-> 0,
         hold_hours |-> 0,
         time_stop_activated |-> FALSE,
         original_tp1 |-> IF ~is_continuation THEN tp.tp1 ELSE pos.original_tp1,
         original_tp2 |-> IF ~is_continuation THEN tp.tp2 ELSE pos.original_tp2,
         original_signal |-> IF ~is_continuation THEN signal
                             ELSE pos.original_signal,
         original_signal_time |-> IF ~is_continuation THEN UtcNow(t)
                                  ELSE pos.original_signal_time,
         trend_continuation_count |->
             IF is_continuation THEN pos.trend_continuation_count + 1 ELSE 0]

(***************************************************************************)
(* monitor_position                                                        *)
(*                                                                         *)
(* `pos = self.current_position` (line 1186) binds a second name to the    *)
(* same dict: every write to self.current_position[...] is seen by the     *)
(* later reads of pos[...].  The operators below therefore take the dict   *)
(* as it is at the point of the read.                                      *)
(***************************************************************************)
\* numerator of profit_pct (lines 1196-1201); the denominator is entry_price
ProfitNum(pos, current_price) ==
    IF pos.status = "long" THEN current_price - pos.entry_price
    ELSE pos.entry_price - current_price

\* current_pnl_pct = profit_pct * 100, kept in hundredths of a percent
PnlPct(pos, current_price) ==
    (ProfitNum(pos, current_price) * 10000) \div pos.entry_price

\* mutation: the cost zone is not asked for
TimeStopEligible_HoldOnly(pos, current_price, hold_hours) ==
    hold_hours >= PARAMS.time_stop_hours

\* lines 1215-1216
TimeStopEligible(pos, current_price, hold_hours) ==
    LET in_cost_zone == Abs(ProfitNum(pos, current_price)) * 1000
                            <= PARAMS.cost_zone_pct * pos.entry_price
    IN  hold_hours >= PARAMS.time_stop_hours /\ in_cost_zone

\* mutation: a change of 0 counts as a fall (<= 0)
OiTurnDown_NonPositive(changes) ==
    IF Len(changes) >= 2
    THEN \A i \in (Len(changes) - 1)..Len(changes) : changes[i].oi_change <= 0
    ELSE FALSE

\* lines 1234-1240: the two most recent OI changes are both negative
OiTurnDown(changes) ==
    IF Len(changes) >= 2
    THEN \A i \in (Len(changes) - 1)..Len(changes) : changes[i].oi_change < 0
    ELSE FALSE

\* line 1243, read through pos after line 1220 may have written the flag
TimeOiStop(pos, oi_turn_down) == pos.time_stop_activated /\ oi_turn_down

\* profit_pct >= rate (rate per mille)
ProfitAtLeast(pos, current_price, rate) ==
    ProfitNum(pos, current_price) * 1000 >= rate * pos.entry_price

\* the rows of the frame (only the last two candles are represented)
Rows(df) == IF df.len >= 2 THEN {df.latest, df.current} ELSE {df.current}

\* `df_price.index >= pos['entry_time']` (lines 1288, 1364): pandas raises
\* TypeError when a tz-naive index is compared with a tz-aware datetime
\* (and the other way round)
MaskRaises(df, entry_time) ==
    \E r \in Rows(df) : r.ts.aware # entry_time.aware

\* lines 1286-1295 / 1362-1370: [raised, trail_stop]
TrailAfterTp1(pos, current_price, df) ==
    IF df.len > 0
    THEN IF MaskRaises(df, pos.entry_time)
         THEN [raised |-> TRUE, trail_stop |-> pos.trail_stop]
         ELSE LET since == {r \in Rows(df) : r.ts.t >= pos.entry_time.t}
                  extreme == IF since = {} THEN current_price
                             ELSE IF pos.status = "long"
                             THEN Max({r.h : r \in since})
                             ELSE Min({r.l : r \in since})
              IN  [raised |-> FALSE,
                   trail_stop |->
                       IF pos.status = "long"
                       THEN (extreme * (1000 - PARAMS.trail_offset)) \div 1000
                       ELSE (extreme * (1000 + PARAMS.trail_offset)) \div 1000]
    ELSE [raised |-> FALSE, trail_stop |-> pos.trail_stop]

\* lines 1276-1328 / 1354-1402: TP1 reached; the call returns False (or
\* leaves by the exception) without reaching the close
Tp1Reached(pos, current_price, df) ==
    LET p1 == [pos EXCEPT !.tp1_achieved = TRUE]
        p2 == IF PARAMS.flip_stop_to_breakeven
              THEN [p1 EXCEPT !.stop_loss =
                        IF pos.status = "long"
                        THEN (pos.entry_price * 1001) \div 1000
                        ELSE (pos.entry_price * 999) \div 1000,
                    !.breakeven_activated = TRUE]
              ELSE p1
        tr == IF PARAMS.trail_after_tp1
              THEN TrailAfterTp1(p2, current_price, df)
              ELSE [raised |-> FALSE, trail_stop |-> p2.trail_stop]
    IN  [pos |-> [p2 EXCEPT !.trail_stop = tr.trail_stop],
         exit_reason |-> "", returned |-> ~tr.raised, raised |-> tr.raised,
         tp1_now |-> TRUE]

\* price at or beyond level against the position
Adverse(pos, current_price, level) ==
    IF pos.status = "long" THEN current_price <= level
    ELSE current_price >= level

NoExit(pos) ==
    [pos |-> pos, exit_reason |-> "", returned |-> FALSE, raised |-> FALSE,
     tp1_now |-> FALSE]

Exit(pos, reason) ==
    [pos |-> pos, exit_reason |-> reason, returned |-> FALSE,
     raised |-> FALSE, tp1_now |-> FALSE]

\* mutation: the breakeven branch is tested before the stop-loss branch
StopTakeProfit_BreakEvenFirst(pos, current_price, df) ==
    IF pos.breakeven_activated /\ Adverse(pos, current_price, pos.stop_loss)
    THEN Exit(pos, "BREAK_EVEN")
    ELSE IF Adverse(pos, current_price, pos.stop_loss)
    THEN Exit(pos, "SL")
    ELSE IF ~pos.tp1_achieved /\ ProfitAtLeast(pos, current_price, PARAMS.tp1)
    THEN Tp1Reached(pos, current_price, df)
    ELSE IF pos.tp1_achieved /\ ProfitAtLeast(pos, current_price, PARAMS.tp2)
    THEN Exit(pos, "TP2")
    ELSE IF PARAMS.trail_after_tp1 /\ pos.tp1_achieved /\ pos.trail_stop > 0
    THEN IF Adverse(pos, current_price, pos.trail_stop)
         THEN Exit(pos, "TRAIL")
         ELSE NoExit(pos)
    ELSE NoExit(pos)

\* mutation: the TP2 branch does not ask for tp1_achieved and comes first
StopTakeProfit_Tp2WithoutTp1(pos, current_price, df) ==
    IF Adverse(pos, current_price, pos.stop_loss)
    THEN Exit(pos, "SL")
    ELSE IF ProfitAtLeast(pos, current_price, PARAMS.tp2)
    THEN Exit(pos, "TP2")
    ELSE IF ~pos.tp1_achieved /\ ProfitAtLeast(pos, current_price, PARAMS.tp1)
    THEN Tp1Reached(pos, current_price, df)
    ELSE IF PARAMS.trail_after_tp1 /\ pos.tp1_achieved /\ pos.trail_stop > 0
    THEN IF Adverse(pos, current_price, pos.trail_stop)
         THEN Exit(pos, "TRAIL")
         ELSE NoExit(pos)
    ELSE IF pos.breakeven_activated
            /\ Adverse(pos, current_price, pos.stop_loss)
    THEN Exit(pos, "BREAK_EVEN")
    ELSE NoExit(pos)

\* lines 1262-1415: the if/elif chain (the same for long and short, with
\* the comparisons mirrored)
StopTakeProfit(pos, current_price, df) ==
    IF Adverse(pos, current_price, pos.stop_loss)
    THEN Exit(pos, "SL")
    ELSE IF ~pos.tp1_achieved /\ ProfitAtLeast(pos, current_price, PARAMS.tp1)
    THEN Tp1Reached(pos, current_price, df)
    ELSE IF pos.tp1_achieved /\ ProfitAtLeast(pos, current_price, PARAMS.tp2)
    THEN Exit(pos, "TP2")
    ELSE IF PARAMS.trail_after_tp1 /\ pos.tp1_achieved /\ pos.trail_stop > 0
    THEN IF Adverse(pos, current_price, pos.trail_stop)
         THEN Exit(pos, "TRAIL")
         ELSE NoExit(pos)
    ELSE IF pos.breakeven_activated
            /\ Adverse(pos, current_price, pos.stop_loss)
    THEN Exit(pos, "BREAK_EVEN")
    ELSE NoExit(pos)

\* mutation: the close forgets the trend
ClosedPosition_ForgetTrend(pos) == InitialPosition

\* lines 1431-1461: the flat position written by an automatic close
ClosedPosition(pos) ==
    [InitialPosition EXCEPT
        !.original_tp1 = 0,
        !.original_tp2 = 0,
        !.original_signal = pos.original_signal,
        !.original_signal_time = pos.original_signal_time,
        !.trend_continuation_count = pos.trend_continuation_count]

\* mutation: `if not exit_reason` (line 1262) is missing, so the stop-loss
\* and take-profit chain overwrites a TIME_OI_STOP decision
ExitDecision_NoGuard(pos, current_price, df, oi_turn_down) ==
    LET d == StopTakeProfit(pos, current_price, df)
    IN  IF d.exit_reason # "" \/ d.tp1_now THEN d
        ELSE IF TimeOiStop(pos, oi_turn_down)
        THEN Exit(pos, "TIME_OI_STOP")
        ELSE d

\* lines 1207-1260: the exit decision of one tick on the dict as updated
\* by lines 1193-1220
ExitDecision(pos, current_price, df, oi_turn_down) ==
    IF TimeOiStop(pos, oi_turn_down)
    THEN Exit(pos, "TIME_OI_STOP")
    ELSE StopTakeProfit(pos, current_price, df)

\* monitor_position(current_price, df_price) at time t.  Result:
\*   pos      the dict when the call ends       file   the position file
\*   ret      the value returned                raised left by an exception
\*   exit_reason, armed_now (line 1220 ran), tp1_now (line 1276/1354 ran)
monitor_position(pos0, file, current_price, df, t, changes) ==
    IF pos0.status = "none"
    THEN [pos |-> pos0, file |-> file, ret |-> FALSE, raised |-> FALSE,
          exit_reason |-> "", armed_now |-> FALSE, tp1_now |-> FALSE,
          oi_turn_down |-> FALSE]
    ELSE
    LET hold_hours == t - pos0.entry_time.t
        p1 == [pos0 EXCEPT !.hold_hours = hold_hours,
                           !.current_pnl_pct = PnlPct(pos0, current_price)]
        arm == TimeStopEligible(p1, current_price, hold_hours)
                  /\ ~p1.time_stop_activated
        p2 == IF arm THEN [p1 EXCEPT !.time_stop_activated = TRUE] ELSE p1
        oi_turn_down == OiTurnDown(changes)
        d == ExitDecision(p2, current_price, df, oi_turn_down)
        closed == d.exit_reason # ""
        p3 == IF closed THEN ClosedPosition(d.pos) ELSE d.pos
    IN  [pos |-> p3,
         file |-> IF closed THEN save_position_state(p3) ELSE file,
         ret |-> closed, raised |-> d.raised,
         exit_reason |-> d.exit_reason, armed_now |-> arm,
         tp1_now |-> d.tp1_now, oi_turn_down |-> oi_turn_down]

(***************************************************************************)
(* handle_manual_close(clear_history): /close, /clear                      *)
(***************************************************************************)
handle_manual_close(pos, clear_history) ==
    IF pos.status = "none" THEN pos
    ELSE [InitialPosition EXCEPT
            !.original_tp1 = IF clear_history THEN 0 ELSE pos.original_tp1,
            !.original_tp2 = IF clear_history THEN 0 ELSE pos.original_tp2,
            !.original_signal =
                IF clear_history THEN 0 ELSE pos.original_signal,
            !.original_signal_time =
                IF clear_history THEN None ELSE pos.original_signal_time,
            !.trend_continuation_count =
                IF clear_history THEN 0 ELSE pos.trend_continuation_count]

(***************************************************************************)
(* Inputs: the candle frame returned by fetch_realtime_price and completed *)
(* by calc_indicators.  Of the (up to 200) rows the model keeps the last   *)
(* closed one (iloc[-2]) and the in-progress one (iloc[-1]).               *)
(* calc_indicators writes one oi_change_pct and one oi_price_divergence to *)
(* every row of the frame (the result of calculate_hourly_oi_change).      *)
(***************************************************************************)
Row(ts, h, l, c, ma20, bw, coo, oi, div) ==
    [ts |-> ts, o |-> c, h |-> h, l |-> l, c |-> c, ma20 |-> ma20,
     bandwidth |-> bw, coo |-> coo,
     oi_change_pct |-> oi, oi_price_divergence |-> div]

Frame(len, latest, current) ==
    [present |-> TRUE, len |-> len, latest |-> latest, current |-> current]

\* closed rows a signal check can see: (l, ma20, bw, coo, oi, div)
\*   squeeze long, squeeze short, squeeze without breakout,
\*   no squeeze and no extreme, extreme long without squeeze,
\*   squeeze long vetoed by the OI change, by the divergence
ClosedRowShapes ==
    { <<99000, 99500, 20, 40, 50, 0>>,
      <<99000, 100500, 20, 55, 50, 0>>,
      <<99800, 99500, 20, 40, 50, 0>>,
      <<99000, 99500, 60, 40, 50, 0>>,
      <<99000, 99500, 60, 90, 50, 0>>,
      <<99000, 99500, 20, 40, -200, 0>>,
      <<99000, 99500, 20, 40, 50, -200>> }

\* frames seen by a signal check at time t: full windows of every shape,
\* and a window of fewer than 50 candles
SignalFrames(t) ==
    { Frame(x[7],
            Row(IndexTs(t - 1), 101000, x[1], 100000, x[2], x[3], x[4],
                x[5], x[6]),
            Row(IndexTs(t), c, c, c, c, x[3], x[4], x[5], x[6])) :
        x \in { <<y[1], y[2], y[3], y[4], y[5], y[6], 200>> :
                  y \in ClosedRowShapes }
              \cup { <<99000, 99500, 20, 40, 50, 0, 49>> },
        c \in EntryPrices }

\* frames seen by a monitoring tick at time t
MonitorFrames(t) ==
    { Frame(x[1],
            Row(IndexTs(t - 1), 104000, 96000, 100000, 100000, 60, 50, 0, 0),
            Row(IndexTs(t), x[2], x[3], 100000, 100000, 60, 50, 0, 0)) :
        x \in { <<1, 104000, 96000>>, <<200, 108000, 92000>> } }

(***************************************************************************)
(* Observation of the last operation that read or wrote the position:      *)
(* its inputs, its result, and what held of the position when it started.  *)
(***************************************************************************)
\* what held when the operation started, for an input price
Before(pos, price) ==
    LET open == pos.status # "none"
    IN  [status |-> pos.status,
         tp1_achieved |-> pos.tp1_achieved,
         breakeven_activated |-> pos.breakeven_activated,
         time_stop_activated |-> pos.time_stop_activated,
         trail_armed |-> pos.trail_stop > 0,
         sl_hit |-> open /\ Adverse(pos, price, pos.stop_loss),
         tp1_hit |-> open /\ ProfitAtLeast(pos, price, PARAMS.tp1),
         tp2_hit |-> open /\ ProfitAtLeast(pos, price, PARAMS.tp2),
         trail_hit |-> open /\ pos.trail_stop > 0
                         /\ Adverse(pos, price, pos.trail_stop)]

Observed(op, pos, price, signal, r) ==
    [op |-> op, was |-> Before(pos, price), price |-> price,
     signal |-> signal,
     exit_reason |-> r.exit_reason, ret |-> r.ret, raised |-> r.raised,
     armed_now |-> r.armed_now, tp1_now |-> r.tp1_now,
     oi_turn_down |-> r.oi_turn_down]

NoResult ==
    [exit_reason |-> "", ret |-> FALSE, raised |-> FALSE,
     armed_now |-> FALSE, tp1_now |-> FALSE, oi_turn_down |-> FALSE]

\* threading.Lock() free, the collector outside its critical section
OiSyncIdle ==
    [lock |-> "free", pc |-> "idle", oi_value |-> 0, n |-> 0, log |-> <<>>]

\* no method has been called directly
NoCall == [fn |-> "none"]

(***************************************************************************)
(* Initial state: a first start, no files on disk                          *)
(***************************************************************************)
Init ==
    /\ current_position = InitialPosition
    /\ position_file = NoPositionFile
    /\ signal_history_file = NoSignalHistoryFile
    /\ oi_history = <<>>
    /\ oi_changes_history = <<>>
    /\ now = 0
    /\ last = Observed("init", InitialPosition, 0, 0, NoResult)
    /\ oi_sync = OiSyncIdle
    /\ call = NoCall

(***************************************************************************)
(* monitoring_loop, one iteration that checks for a signal                 *)
(* (should_check_signal, lines 1535-1566)                                  *)
(***************************************************************************)
\* mutation: the status test is missing from should_check_signal
should_check_signal_AnyStatus == TRUE

should_check_signal == current_position.status = "none"

should_check_position == current_position.status # "none"

SignalCheck ==
    /\ should_check_signal
    /\ \E df \in SignalFrames(now) :
        LET r == check_signal(df)
            entry_price == df.current.c
            cont == is_same_trend_continuation(current_position, r.signal)
            new == open_position(current_position, r.signal, entry_price,
                                 df, now)
        IN  IF r.signal # 0
            THEN /\ cont =>
                      current_position.trend_continuation_count
                          < MaxContinuation
                 /\ current_position' = new
                 /\ signal_history_file' =
                      IF ~cont
                      THEN save_signal_history(new, r.signal, entry_price,
                               new.take_profit1, new.take_profit2, now)
                      ELSE signal_history_file
                 /\ position_file' = save_position_state(new)
                 /\ last' = Observed("open", current_position, entry_price,
                                     r.signal, NoResult)
            ELSE /\ UNCHANGED <<current_position, signal_history_file,
                               position_file>>
                 /\ last' = Observed("no_signal", current_position,
                                     entry_price, 0, NoResult)
    /\ UNCHANGED <<oi_history, oi_changes_history, now, aux>>

(***************************************************************************)
(* monitoring_loop, one iteration that monitors the position               *)
(* (should_check_position, lines 1541-1593)                                *)
(***************************************************************************)
Monitor ==
    /\ should_check_position
    /\ \E df \in MonitorFrames(now), current_price \in Prices :
        LET r == monitor_position(current_position, position_file,
                                  current_price, df, now,
                                  oi_changes_history)
        IN  /\ current_position' = r.pos
            /\ position_file' = r.file
            /\ last' = Observed("monitor", current_position, current_price,
                                0, r)
    /\ UNCHANGED <<signal_history_file, oi_history, oi_changes_history, now,
                   aux>>

(***************************************************************************)
(* Telegram thread: /close (clear_history = FALSE), /clear (TRUE)          *)
(***************************************************************************)
ManualClose ==
    /\ \E clear_history \in BOOLEAN :
        LET new == handle_manual_close(current_position, clear_history)
        IN  /\ current_position' = new
            /\ IF current_position.status = "none"
               THEN UNCHANGED <<position_file, signal_history_file>>
               ELSE /\ position_file' = save_position_state(new)
                    /\ signal_history_file' =
                         IF clear_history THEN NoSignalHistoryFile
                         ELSE signal_history_file
            /\ last' = Observed(IF clear_history THEN "clear" ELSE "close",
                                current_position, 0, 0, NoResult)
    /\ UNCHANGED <<oi_history, oi_changes_history, now, aux>>

(***************************************************************************)
(* oi_collection_loop: one sample (lines 647-665)                          *)
(***************************************************************************)
\* mutation: a deque without maxlen
DequeAppend_Unbounded(q, x) == Append(q, x)

\* deque(maxlen).append
DequeAppend(q, x) ==
    IF Len(q) >= OiMaxLen THEN Append(Tail(q), x) ELSE Append(q, x)

\* (oi_value - prev_oi) / prev_oi in basis points, 0 if prev_oi <= 0
OiChange(oi_value, prev_oi) ==
    IF prev_oi > 0 THEN ((oi_value - prev_oi) * 10000) \div prev_oi ELSE 0

OiCollect ==
    /\ \E oi_value \in OiValues :
        LET h == DequeAppend(oi_history,
                     [timestamp |-> UtcNow(now), open_interest |-> oi_value])
        IN  /\ oi_history' = h
            /\ oi_changes_history' =
                 IF Len(h) >= 2
                 THEN DequeAppend(oi_changes_history,
                          [timestamp |-> UtcNow(now),
                           oi_change |->
                               OiChange(oi_value,
                                        h[Len(h) - 1].open_interest)])
                 ELSE oi_changes_history
    /\ UNCHANGED <<current_position, position_file, signal_history_file,
                   now, last, aux>>

(***************************************************************************)
(* The clock                                                               *)
(***************************************************************************)
ClockAdvance ==
    /\ now + HoursPerStep <= MaxSteps * HoursPerStep
    /\ now' = now + HoursPerStep
    /\ UNCHANGED <<current_position, position_file, signal_history_file,
                   oi_history, oi_changes_history, last, aux>>

Next ==
    \/ SignalCheck
    \/ Monitor
    \/ ManualClose
    \/ OiCollect
    \/ ClockAdvance

Spec == Init /\ [][Next]_vars

(***************************************************************************)
(* The OI collector thread step by step, next to a reader of the deques.   *)
(* oi_sync.lock is the holder of oi_lock; oi_sync.pc the collector's place *)
(* (idle, locked: inside `with self.oi_lock` before line 656, appended:    *)
(* after line 656); oi_sync.n is the current time in 5-minute marks (the   *)
(* collector samples once per mark); oi_sync.log lists every sample        *)
(* appended.                                                               *)
(***************************************************************************)
oi_point(n, oi_value) == [timestamp |-> UtcNow(n), open_interest |-> oi_value]

\* lines 643-655: read the time, fetch the value, enter `with self.oi_lock`
CollectorFetch ==
    /\ oi_sync.pc = "idle"
    /\ oi_sync.lock = "free"
    /\ oi_sync.n < MaxSamples
    /\ \E oi_value \in OiValues :
        oi_sync' = [oi_sync EXCEPT !.lock = "collector", !.pc = "locked",
                                   !.oi_value = oi_value, !.n = @ + 1]
    /\ UNCHANGED <<current_position, position_file, signal_history_file,
                   oi_history, oi_changes_history, now, last, call>>

\* mutation: the lock is released after the sample is appended, before the
\* change is derived
CollectorAppendSample_ReleasesLock ==
    /\ oi_sync.pc = "locked"
    /\ oi_history' = DequeAppend(oi_history,
                                 oi_point(oi_sync.n, oi_sync.oi_value))
    /\ oi_sync' = [oi_sync EXCEPT
                     !.pc = "appended", !.lock = "free",
                     !.log = Append(@, oi_point(oi_sync.n, oi_sync.oi_value))]
    /\ UNCHANGED <<current_position, position_file, signal_history_file,
                   oi_changes_history, now, last, call>>

\* line 656
CollectorAppendSample ==
    /\ oi_sync.pc = "locked"
    /\ oi_history' = DequeAppend(oi_history,
                                 oi_point(oi_sync.n, oi_sync.oi_value))
    /\ oi_sync' = [oi_sync EXCEPT
                     !.pc = "appended",
                     !.log = Append(@, oi_point(oi_sync.n, oi_sync.oi_value))]
    /\ UNCHANGED <<current_position, position_file, signal_history_file,
                   oi_changes_history, now, last, call>>

\* lines 659-665 and the end of the with block
CollectorAppendChange ==
    /\ oi_sync.pc = "appended"
    /\ oi_changes_history' =
         IF Len(oi_history) >= 2
         THEN DequeAppend(oi_changes_history,
                  [timestamp |-> UtcNow(oi_sync.n),
                   oi_change |->
                       OiChange(oi_sync.oi_value,
                                oi_history[Len(oi_history) - 1].open_interest)])
         ELSE oi_changes_history
    /\ oi_sync' = [oi_sync EXCEPT !.pc = "idle", !.lock = "free"]
    /\ UNCHANGED <<current_position, position_file, signal_history_file,
                   oi_history, now, last, call>>

\* a reader enters `with self.oi_lock` (lines 826, 1235)
ReaderAcquire ==
    /\ oi_sync.lock = "free"
    /\ oi_sync' = [oi_sync EXCEPT !.lock = "main"]
    /\ UNCHANGED <<current_position, position_file, signal_history_file,
                   oi_history, oi_changes_history, now, last, call>>

\* the reader leaves the with block
ReaderRelease ==
    /\ oi_sync.lock = "main"
    /\ oi_sync' = [oi_sync EXCEPT !.lock = "free"]
    /\ UNCHANGED <<current_position, position_file, signal_history_file,
                   oi_history, oi_changes_history, now, last, call>>

NextOi ==
    \/ CollectorFetch
    \/ CollectorAppendSample
    \/ CollectorAppendChange
    \/ ReaderAcquire
    \/ ReaderRelease

SpecOi == Init /\ [][NextOi]_vars

(***************************************************************************)
(* The reads of the two deques, each recorded in call with the thread that *)
(* reads and the holder of oi_lock at that moment.                         *)
(***************************************************************************)
ReadAt(site, thread) ==
    [fn |-> "read", site |-> site, thread |-> thread,
     holder |-> oi_sync.lock]

\* lines 659-660, inside the collector's with block
CollectorReadLocked ==
    /\ oi_sync.pc = "appended"
    /\ call' = ReadAt(659, "collector")
    /\ UNCHANGED <<current_position, position_file, signal_history_file,
                   oi_history, oi_changes_history, now, last, oi_sync>>

\* line 667: len(self.oi_history) % 5 after the with block has been left
CollectorReadLogTest ==
    /\ oi_sync.pc = "idle"
    /\ oi_sync.n > 0
    /\ call' = ReadAt(667, "collector")
    /\ UNCHANGED <<current_position, position_file, signal_history_file,
                   oi_history, oi_changes_history, now, last, oi_sync>>

\* lines 827-842 and 1236-1238, inside the main loop's with blocks
MainReadLocked ==
    /\ oi_sync.lock = "main"
    /\ \E site \in {827, 1236} : call' = ReadAt(site, "main")
    /\ UNCHANGED <<current_position, position_file, signal_history_file,
                   oi_history, oi_changes_history, now, last, oi_sync>>

\* line 892: len(self.oi_history) >= 2 in calc_indicators, before
\* calculate_hourly_oi_change takes the lock
MainReadLenTest ==
    /\ oi_sync.lock # "main"
    /\ call' = ReadAt(892, "main")
    /\ UNCHANGED <<current_position, position_file, signal_history_file,
                   oi_history, oi_changes_history, now, last, oi_sync>>

NextOiReads ==
    \/ CollectorFetch
    \/ CollectorAppendSample
    \/ CollectorAppendChange
    \/ ReaderAcquire
    \/ ReaderRelease
    \/ CollectorReadLocked
    \/ CollectorReadLogTest
    \/ MainReadLocked
    \/ MainReadLenTest

SpecOiReads == Init /\ [][NextOiReads]_vars

(***************************************************************************)
(* calculate_hourly_oi_change(df_price) called at time current_time, in    *)
(* 5-minute marks (one hour = 12 marks).  Rates are in basis points,       *)
(* rounded down.                                                           *)
(***************************************************************************)
\* mutation: the scan keeps the oldest sample that is an hour old (no
\* break at line 839)
calculate_hourly_oi_change_Oldest(history, current_time, df) ==
    IF Len(history) < 12
    THEN [oi_change_pct |-> 0, oi_divergence |-> 0]
    ELSE
    LET one_hour_ago == current_time - 12
        oi_now == history[Len(history)].open_interest
        older == {i \in 1..(Len(history) - 1) :
                     history[i].timestamp.t <= one_hour_ago}
        oi_before ==
            IF older # {} THEN history[Min(older)].open_interest
            ELSE IF Len(history) >= 12
            THEN history[Len(history) - 11].open_interest
            ELSE 0
        oi_change_pct ==
            IF oi_before > 0
            THEN ((oi_now - oi_before) * 10000) \div oi_before
            ELSE 0
        price_change_pct ==
            ((df.current.c - df.latest.c) * 10000) \div df.latest.c
    IN  [oi_change_pct |-> oi_change_pct,
         oi_divergence |->
             IF df.len >= 2 THEN oi_change_pct - price_change_pct ELSE 0]

\* mutation: the minimum number of samples is 2, as in calc_indicators
calculate_hourly_oi_change_MinTwo(history, current_time, df) ==
    IF Len(history) < 2
    THEN [oi_change_pct |-> 0, oi_divergence |-> 0]
    ELSE
    LET one_hour_ago == current_time - 12
        oi_now == history[Len(history)].open_interest
        older == {i \in 1..(Len(history) - 1) :
                     history[i].timestamp.t <= one_hour_ago}
        oi_before ==
            IF older # {} THEN history[Max(older)].open_interest
            ELSE IF Len(history) >= 12
            THEN history[Len(history) - 11].open_interest
            ELSE 0
        oi_change_pct ==
            IF oi_before > 0
            THEN ((oi_now - oi_before) * 10000) \div oi_before
            ELSE 0
        price_change_pct ==
            ((df.current.c - df.latest.c) * 10000) \div df.latest.c
    IN  [oi_change_pct |-> oi_change_pct,
         oi_divergence |->
             IF df.len >= 2 THEN oi_change_pct - price_change_pct ELSE 0]

\* lines 823-859; oi_before `None` is 0 here (both fail `if oi_before`)
calculate_hourly_oi_change(history, current_time, df) ==
    IF Len(history) < 12
    THEN [oi_change_pct |-> 0, oi_divergence |-> 0]
    ELSE
    LET one_hour_ago == current_time - 12
        oi_now == history[Len(history)].open_interest
        older == {i \in 1..(Len(history) - 1) :
                     history[i].timestamp.t <= one_hour_ago}
        oi_before ==
            IF older # {} THEN history[Max(older)].open_interest
            ELSE IF Len(history) >= 12
            THEN history[Len(history) - 11].open_interest
            ELSE 0
        oi_change_pct ==
            IF oi_before > 0
            THEN ((oi_now - oi_before) * 10000) \div oi_before
            ELSE 0
        price_change_pct ==
            ((df.current.c - df.latest.c) * 10000) \div df.latest.c
    IN  [oi_change_pct |-> oi_change_pct,
         oi_divergence |->
             IF df.len >= 2 THEN oi_change_pct - price_change_pct ELSE 0]

\* n samples taken every `spacing` marks, the i-th with value 100 + step*i
HistoryOf(n, step, spacing) ==
    [i \in 1..n |-> oi_point(i * spacing, 100 + step * i)]

\* the changes the collector derived from these samples (lines 659-665)
ChangesOf(history) ==
    [i \in 1..(Len(history) - 1) |->
        [timestamp |-> history[i + 1].timestamp,
         oi_change |-> OiChange(history[i + 1].open_interest,
                                history[i].open_interest)]]

\* frames passed by calc_indicators: a rising close, and a single candle
HourlyFrames ==
    { Frame(200, Row(IndexTs(-1), 101000, 99000, 100000, 100000, 60, 50, 0, 0),
                 Row(IndexTs(0), 102000, 100000, 101000, 100000, 60, 50, 0, 0)),
      Frame(1, Row(IndexTs(0), 101000, 99000, 100000, 100000, 60, 50, 0, 0),
               Row(IndexTs(0), 101000, 99000, 100000, 100000, 60, 50, 0, 0)) }

\* the deques hold up to MaxHistory samples (every mark, or every second
\* mark when fetches failed); the call comes at the last sample's mark or
\* one mark later
InitHourly ==
    /\ current_position = InitialPosition
    /\ position_file = NoPositionFile
    /\ signal_history_file = NoSignalHistoryFile
    /\ \E n \in 0..MaxHistory, step \in {-1, 0, 1}, spacing \in {1, 2},
          late \in {0, 1} :
        /\ oi_history = HistoryOf(n, step, spacing)
        /\ oi_changes_history = ChangesOf(oi_history)
        /\ oi_sync = [OiSyncIdle EXCEPT !.n = n * spacing + late]
    /\ now = 0
    /\ last = Observed("init", InitialPosition, 0, 0, NoResult)
    /\ call = NoCall

HourlyCall ==
    /\ call.fn = "none"
    /\ \E df \in HourlyFrames :
        call' = [fn |-> "calculate_hourly_oi_change", df |-> df,
                 result |-> calculate_hourly_oi_change(oi_history,
                                                       oi_sync.n, df)]
    /\ UNCHANGED <<current_position, position_file, signal_history_file,
                   oi_history, oi_changes_history, now, last, oi_sync>>

NextHourly == HourlyCall

SpecHourly == InitHourly /\ [][NextHourly]_vars

(***************************************************************************)
(* Direct calls of check_signal(df_price) on frames whose closed candle    *)
(* ranges over bandwidths below, at and above the squeeze threshold,       *)
(* oscillator values in and at the edges of every band, the three breakout *)
(* shapes, OI values on both sides of the filter and both window lengths.  *)
(***************************************************************************)
\* (l, h, ma20) of a closed candle with close 100.0: bull breakout, bear
\* breakout, neither
BreakoutShapes ==
    { <<99000, 101000, 99500>>, <<99000, 101000, 100500>>,
      <<99800, 101000, 99500>> }

CheckFrames ==
    { Frame(len,
            Row(IndexTs(-1), b[2], b[1], 100000, b[3], bw, coo, oi, div),
            Row(IndexTs(0), 100000, 100000, 100000, b[3], bw, coo, oi, div)) :
        len \in {49, 200}, b \in BreakoutShapes, bw \in {20, 40, 60},
        coo \in {10, 20, 25, 50, 80, 90}, oi \in {50, -100, -200},
        div \in {0, -100, -200} }

SignalCall ==
    /\ call.fn = "none"
    /\ \E df \in CheckFrames :
        call' = [fn |-> "check_signal", df |-> df,
                 result |-> check_signal(df)]
    /\ UNCHANGED <<current_position, position_file, signal_history_file,
                   oi_history, oi_changes_history, now, last, oi_sync>>

NextSignal == SignalCall

SpecSignal == Init /\ [][NextSignal]_vars

(***************************************************************************)
(* calc_indicators followed by check_signal, as lines 1552 and 1559 run    *)
(* them, on two candle windows that differ in the in-progress candle only. *)
(* The rolling and exponential means of a row use that row and earlier     *)
(* ones, so ma20, bandwidth and coo of the closed row are the same in both *)
(* windows; the two OI columns are one pair of scalars written to every    *)
(* row (lines 892-898).                                                    *)
(***************************************************************************)
\* lines 891-898 of calc_indicators: the OI columns of the frame
calc_indicators(history, current_time, df) ==
    LET r == IF Len(history) >= 2
             THEN calculate_hourly_oi_change(history, current_time, df)
             ELSE [oi_change_pct |-> 0, oi_divergence |-> 0]
    IN  [df EXCEPT !.latest.oi_change_pct = r.oi_change_pct,
                   !.latest.oi_price_divergence = r.oi_divergence,
                   !.current.oi_change_pct = r.oi_change_pct,
                   !.current.oi_price_divergence = r.oi_divergence]

\* closes of the in-progress candle after a closed candle at 100.0
OpenCandleCloses == {98000, 100000, 102000}

\* a window of 200 candles: closed row of shape b, bandwidth bw, oscillator
\* coo, and an in-progress candle closing at c
WindowOf(b, bw, coo, c) ==
    Frame(200,
          Row(IndexTs(-1), b[2], b[1], 100000, b[3], bw, coo, 0, 0),
          Row(IndexTs(0), c, c, c, b[3], bw, coo, 0, 0))

SignalPairCall ==
    /\ call.fn = "none"
    /\ \E b \in BreakoutShapes, bw \in {20, 60}, coo \in {40, 90},
          ca \in OpenCandleCloses, cb \in OpenCandleCloses :
        LET dfa == calc_indicators(oi_history, oi_sync.n,
                                   WindowOf(b, bw, coo, ca))
            dfb == calc_indicators(oi_history, oi_sync.n,
                                   WindowOf(b, bw, coo, cb))
        IN  call' = [fn |-> "check_signal_pair", a |-> dfa, b |-> dfb,
                     result_a |-> check_signal(dfa),
                     result_b |-> check_signal(dfb)]
    /\ UNCHANGED <<current_position, position_file, signal_history_file,
                   oi_history, oi_changes_history, now, last, oi_sync>>

NextPair == SignalPairCall

SpecPair == InitHourly /\ [][NextPair]_vars

(***************************************************************************)
(* Direct calls of calculate_dynamic_position_score and of                 *)
(* get_dynamic_position_size_v2.                                           *)
(***************************************************************************)
\* (l, h, ma20) of a candle closing at 100.0: bull breakout of 0.5 %, bull
\* breakout of 2 %, bear breakout of 0.5 %, no breakout
ScoreShapes ==
    { <<99000, 101000, 99500>>, <<97000, 101000, 98000>>,
      <<99000, 101000, 100500>>, <<99800, 101000, 99500>> }

ScoreCall ==
    /\ call.fn = "none"
    /\ \E b \in ScoreShapes, bw \in {20, 27, 35, 45, 60},
          coo \in {10, 20, 25, 30, 33, 40, 48, 50, 51, 55, 59, 60, 65, 75,
                   85},
          oi_change \in {150, 50, 0, -50, -100, -150},
          oi_divergence \in {0, -100, -150} :
        call' = [fn |-> "calculate_dynamic_position_score",
                 bw |-> bw, coo |-> coo, oi_change |-> oi_change,
                 oi_divergence |-> oi_divergence,
                 result |-> calculate_dynamic_position_score(
                                100000, b[1], b[2], b[3], bw, coo,
                                oi_change, oi_divergence)]
    /\ UNCHANGED <<current_position, position_file, signal_history_file,
                   oi_history, oi_changes_history, now, last, oi_sync>>

SizeCall ==
    /\ call.fn = "none"
    /\ \E score \in 0..100 :
        call' = [fn |-> "get_dynamic_position_size_v2", score |-> score,
                 result |-> get_dynamic_position_size_v2(score)]
    /\ UNCHANGED <<current_position, position_file, signal_history_file,
                   oi_history, oi_changes_history, now, last, oi_sync>>

NextScore ==
    \/ ScoreCall
    \/ SizeCall

SpecScore == Init /\ [][NextScore]_vars

(***************************************************************************)
(* monitoring_loop step by step (lines 1514-1602).  call is the loop's     *)
(* frame: pc (while: at the test of line 1518; body: inside the try, the   *)
(* two flags computed; sleep: line 1596; cooldown_fetch: line 1549;        *)
(* cooldown_error: line 1602; exited), is_running, last_check_hour, the    *)
(* wall-clock minute, the flags of lines 1535-1543 and a record `it` of    *)
(* what the last iteration did.  now counts hours since midnight of the    *)
(* first day; the hour of day is now % 24.  Minute 2 stands for every      *)
(* minute after the first.                                                 *)
(***************************************************************************)
\* mutation: the minute test (line 1536) is missing
loop_should_check_signal_AnyMinute(minute, current_hour, last_check_hour, pos) ==
    /\ current_hour # last_check_hour
    /\ pos.status = "none"

\* lines 1535-1539
loop_should_check_signal(minute, current_hour, last_check_hour, pos) ==
    /\ minute = 1
    /\ current_hour # last_check_hour
    /\ pos.status = "none"

\* nothing done yet
NoIteration ==
    [outcome |-> "none", checked |-> FALSE, monitored |-> FALSE,
     opened |-> FALSE, flat_at_start |-> TRUE, hour |-> 0, minute |-> 0,
     checked_before |-> FALSE, df_len |-> 0,
     result |-> [signal |-> 0, reason |-> ""]]

\* lines 1514-1516, at a wall-clock hour h
LoopFrame(h) ==
    [fn |-> "monitoring_loop", pc |-> "while", is_running |-> TRUE,
     last_check_hour |-> -1, minute |-> 0, first_hour |-> h,
     should_check_signal |-> FALSE, should_check_position |-> FALSE,
     started |-> [hour |-> h, minute |-> 0, flat |-> TRUE],
     checked_hours |-> {}, it |-> NoIteration]

\* the loop starts in the last but one hour of a day
InitLoop ==
    /\ current_position = InitialPosition
    /\ position_file = NoPositionFile
    /\ signal_history_file = NoSignalHistoryFile
    /\ oi_history = <<>>
    /\ oi_changes_history = <<>>
    /\ now = 22
    /\ last = Observed("init", InitialPosition, 0, 0, NoResult)
    /\ oi_sync = OiSyncIdle
    /\ call = LoopFrame(now)

\* lines 1518-1543: the test of the while, the clock read and the two flags
LoopEnter ==
    /\ call.pc = "while"
    /\ call.is_running
    /\ call' = [call EXCEPT
                  !.pc = "body",
                  !.should_check_signal =
                      loop_should_check_signal(call.minute, now % 24,
                                               call.last_check_hour,
                                               current_position),
                  !.should_check_position = should_check_position,
                  !.started = [hour |-> now, minute |-> call.minute,
                               flat |-> current_position.status = "none"]]
    /\ UNCHANGED <<current_position, position_file, signal_history_file,
                   oi_history, oi_changes_history, now, last, oi_sync>>

\* line 1518 with is_running false
LoopExit ==
    /\ call.pc = "while"
    /\ ~call.is_running
    /\ call' = [call EXCEPT !.pc = "exited"]
    /\ UNCHANGED <<current_position, position_file, signal_history_file,
                   oi_history, oi_changes_history, now, last, oi_sync>>

\* what fetch_realtime_price returns at a signal check: a squeezed long
\* breakout in a full window and in one of 49 candles, no breakout
LoopSignalFrames(t) ==
    { Frame(x[1],
            Row(IndexTs(t - 1), 101000, x[2], 100000, 99500, 20, 40, 50, 0),
            Row(IndexTs(t), 100000, 100000, 100000, 100000, 20, 40, 50, 0)) :
        x \in { <<200, 99000>>, <<49, 99000>>, <<200, 99800>> } }

\* the record of an iteration entered as call.started says
Iteration(outcome, checked, monitored, opened, df_len, result) ==
    [outcome |-> outcome, checked |-> checked, monitored |-> monitored,
     opened |-> opened, flat_at_start |-> call.started.flat,
     hour |-> call.started.hour, minute |-> call.started.minute,
     checked_before |-> call.started.hour \in call.checked_hours,
     df_len |-> df_len, result |-> result]

\* lines 1545-1550: nothing to do, or no candles (None or an empty frame)
LoopBodyIdle ==
    /\ call.pc = "body"
    /\ \/ /\ ~call.should_check_signal
          /\ ~call.should_check_position
          /\ call' = [call EXCEPT
                        !.pc = "sleep",
                        !.it = Iteration("ok", FALSE, FALSE, FALSE, 0,
                                         NoIteration.result)]
       \/ /\ call.should_check_signal \/ call.should_check_position
          /\ call' = [call EXCEPT
                        !.pc = "cooldown_fetch",
                        !.it = Iteration("fetch_failed", FALSE, FALSE, FALSE,
                                         0, NoIteration.result)]
    /\ UNCHANGED <<current_position, position_file, signal_history_file,
                   oi_history, oi_changes_history, now, last, oi_sync>>

\* line 1552 on candles with a missing value: the arithmetic of
\* calc_indicators raises, the except clause of line 1598 takes over
LoopBodyIndicatorError ==
    /\ call.pc = "body"
    /\ call.should_check_signal \/ call.should_check_position
    /\ call' = [call EXCEPT
                  !.pc = "cooldown_error",
                  !.it = Iteration("error", FALSE, FALSE, FALSE, 0,
                                   NoIteration.result)]
    /\ UNCHANGED <<current_position, position_file, signal_history_file,
                   oi_history, oi_changes_history, now, last, oi_sync>>

\* lines 1555-1566
LoopBodySignal ==
    /\ call.pc = "body"
    /\ call.should_check_signal
    /\ \E df \in LoopSignalFrames(now) :
        LET r == check_signal(df)
            entry_price == df.current.c
            cont == is_same_trend_continuation(current_position, r.signal)
            new == open_position(current_position, r.signal, entry_price,
                                 df, now)
        IN  /\ call' = [call EXCEPT
                          !.pc = "sleep",
                          !.last_check_hour = call.started.hour % 24,
                          !.checked_hours = @ \cup {call.started.hour},
                          !.it = Iteration("ok", TRUE, FALSE, r.signal # 0,
                                           df.len, r)]
            /\ IF r.signal # 0
               THEN /\ cont =>
                         current_position.trend_continuation_count
                             < MaxContinuation
                    /\ current_position' = new
                    /\ signal_history_file' =
                         IF ~cont
                         THEN save_signal_history(new, r.signal, entry_price,
                                  new.take_profit1, new.take_profit2, now)
                         ELSE signal_history_file
                    /\ position_file' = save_position_state(new)
               ELSE UNCHANGED <<current_position, signal_history_file,
                                position_file>>
    /\ UNCHANGED <<oi_history, oi_changes_history, now, last, oi_sync>>

\* lines 1568-1593; the ticker gives a price, or fails three times and the
\* last close is used (line 1584)
LoopBodyMonitor ==
    /\ call.pc = "body"
    /\ call.should_check_position
    /\ \E df \in MonitorFrames(now), ticker \in {0, 92000, 104000} :
        LET current_price == IF ticker = 0 THEN df.current.c ELSE ticker
            r == monitor_position(current_position, position_file,
                                  current_price, df, now,
                                  oi_changes_history)
        IN  /\ current_position' = r.pos
            /\ position_file' = r.file
            /\ call' = [call EXCEPT
                          !.pc = IF r.raised THEN "cooldown_error"
                                 ELSE "sleep",
                          !.it = Iteration(IF r.raised THEN "error" ELSE "ok",
                                           FALSE, TRUE, FALSE, df.len,
                                           NoIteration.result)]
    /\ UNCHANGED <<signal_history_file, oi_history, oi_changes_history, now,
                   last, oi_sync>>

\* mutation: an exception ends the loop
LoopWake_ErrorExits ==
    /\ call.pc \in {"sleep", "cooldown_fetch", "cooldown_error"}
    /\ call' = [call EXCEPT !.pc = IF @ = "cooldown_error" THEN "exited"
                                   ELSE "while"]
    /\ UNCHANGED <<current_position, position_file, signal_history_file,
                   oi_history, oi_changes_history, now, last, oi_sync>>

\* time.sleep returns (lines 1549-1550, 1596, 1602): back to line 1518
LoopWake ==
    /\ call.pc \in {"sleep", "cooldown_fetch", "cooldown_error"}
    /\ call' = [call EXCEPT !.pc = "while"]
    /\ UNCHANGED <<current_position, position_file, signal_history_file,
                   oi_history, oi_changes_history, now, last, oi_sync>>

\* stop_monitoring (line 1615), on the main thread
LoopStop ==
    /\ call.is_running
    /\ call' = [call EXCEPT !.is_running = FALSE]
    /\ UNCHANGED <<current_position, position_file, signal_history_file,
                   oi_history, oi_changes_history, now, last, oi_sync>>

\* the wall clock: the next minute, or the next hour
LoopClock ==
    /\ IF call.minute < 2
       THEN /\ call' = [call EXCEPT !.minute = @ + 1]
            /\ now' = now
       ELSE /\ now - call.first_hour < MaxLoopHours
            /\ call' = [call EXCEPT !.minute = 0]
            /\ now' = now + 1
    /\ UNCHANGED <<current_position, position_file, signal_history_file,
                   oi_history, oi_changes_history, last, oi_sync>>

\* /close and /clear arrive on the Telegram thread at any time
LoopManualClose ==
    /\ \E clear_history \in BOOLEAN :
        LET new == handle_manual_close(current_position, clear_history)
        IN  /\ current_position.status # "none"
            /\ current_position' = new
            /\ position_file' = save_position_state(new)
            /\ signal_history_file' =
                 IF clear_history THEN NoSignalHistoryFile
                 ELSE signal_history_file
    /\ UNCHANGED <<oi_history, oi_changes_history, now, last, aux>>

LoopThread ==
    \/ LoopEnter
    \/ LoopExit
    \/ LoopBodyIdle
    \/ LoopBodyIndicatorError
    \/ LoopBodySignal
    \/ LoopBodyMonitor
    \/ LoopWake

NextLoop ==
    \/ LoopThread
    \/ LoopStop
    \/ LoopClock
    \/ LoopManualClose

SpecLoop == InitLoop /\ [][NextLoop]_vars

\* the monitoring thread is scheduled and its sleeps return
SpecLoopFair == SpecLoop /\ WF_vars(LoopThread)

(***************************************************************************)
(* The loop over more than one day.  While a position is open the          *)
(* iterations only monitor it (should_check_signal is false, line 1539),   *)
(* so last_check_hour keeps the hour of day of the check that opened it.   *)
(***************************************************************************)
\* days the loop may spend holding a position
MaxDays == 1

\* 24 hours pass with a position open and the price staying at the entry
\* price: the position is as the last monitoring tick of the day leaves it
\* (lines 1568-1593)
LoopDayHeld ==
    /\ call.minute = 2
    /\ current_position.status # "none"
    /\ now - call.first_hour < MaxLoopHours
    /\ now - call.first_hour < MaxDays * 24
    /\ LET r == monitor_position(current_position, position_file,
                                 current_position.entry_price,
                                 Frame(200,
                                       Row(IndexTs(now + 23), 104000, 96000,
                                           100000, 100000, 60, 50, 0, 0),
                                       Row(IndexTs(now + 24), 104000, 96000,
                                           100000, 100000, 60, 50, 0, 0)),
                                 now + 24, oi_changes_history)
       IN  /\ current_position' = r.pos
           /\ position_file' = r.file
    /\ now' = now + 24
    /\ call' = [call EXCEPT !.minute = 0]
    /\ UNCHANGED <<signal_history_file, oi_history, oi_changes_history, last,
                   oi_sync>>

NextLoopDays ==
    \/ LoopThread
    \/ LoopStop
    \/ LoopClock
    \/ LoopManualClose
    \/ LoopDayHeld

SpecLoopDays == InitLoop /\ [][NextLoopDays]_vars

(***************************************************************************)
(* The signal branch of a loop iteration on a flat position (lines         *)
(* 1555-1564): check_signal on the window and, for a signal, open_position *)
(* on the same window, whose closed row open_position scores (1000-1008).  *)
(***************************************************************************)
\* closed candles (l, h, c) around ma20 = 100.0: breakouts up and down
\* inside and outside the 0.1%-1.0% window, and no breakout
SizedShapes ==
    { <<99000, 101000, 100500>>, <<99000, 101000, 99500>>,
      <<99000, 103000, 102000>>, <<97000, 101000, 98000>>,
      <<100200, 101000, 100500>> }

SizedFrames ==
    { Frame(200,
            Row(IndexTs(-1), b[2], b[1], b[3], 100000, bw, coo, oi, div),
            Row(IndexTs(0), 100000, 100000, 100000, 100000, bw, coo, oi,
                div)) :
        b \in SizedShapes, bw \in {20, 27, 35, 45, 60},
        coo \in {10, 25, 33, 40, 48, 50, 55, 59, 65, 85},
        oi \in {150, 50, -50, -100, -150}, div \in {0, -100, -150} }

SizedOpenCall ==
    /\ call.fn = "none"
    /\ \E df \in SizedFrames :
        LET r == check_signal(df)
            latest == df.latest
            s == calculate_dynamic_position_score(
                     latest.c, latest.l, latest.h, latest.ma20,
                     latest.bandwidth, latest.coo, latest.oi_change_pct,
                     latest.oi_price_divergence)
            entry_price == df.current.c
            new == open_position(current_position, r.signal, entry_price,
                                 df, now)
        IN  /\ call' = [fn |-> "signal_open", df |-> df, result |-> r,
                        score |-> s.total_score,
                        oi_score |-> s.details.oi_score]
            /\ IF r.signal # 0
               THEN /\ current_position' = new
                    /\ signal_history_file' =
                         save_signal_history(new, r.signal, entry_price,
                             new.take_profit1, new.take_profit2, now)
                    /\ position_file' = save_position_state(new)
               ELSE UNCHANGED <<current_position, signal_history_file,
                                position_file>>
    /\ UNCHANGED <<oi_history, oi_changes_history, now, last, oi_sync>>

NextSized == SizedOpenCall

SpecSized == Init /\ [][NextSized]_vars

(***************************************************************************)
(* monitor_position (monitoring thread) and handle_manual_close (Telegram  *)
(* thread) statement by statement on one open position; no lock protects   *)
(* current_position.  current_position is the dict self.current_position   *)
(* refers to.  Each method's local `pos` (lines 1186, 525) names the dict  *)
(* that was current when it was bound: it is `attached` while that dict is *)
(* still the current one; when the other thread assigns a new dict to      *)
(* self.current_position (lines 557, 1437) it keeps the old dict, held in  *)
(* d.  Every write of both methods goes through self.current_position,     *)
(* that is to the dict current at the time of the write.                   *)
(* call.m is the frame of monitor_position, call.h that of                 *)
(* handle_manual_close; call.notifications counts the close notifications  *)
(* sent (lines 554, 1428); call.cleared records that /clear has zeroed the *)
(* signal history (lines 545-549).                                         *)
(***************************************************************************)
\* the position under test: a fresh open at 100.0 at hour 0
RacePosition(signal) ==
    open_position(InitialPosition, signal, 100000,
                  Frame(200,
                        Row(IndexTs(-1), 101000, 99000, 100000, 99500, 20,
                            40, 50, 0),
                        Row(IndexTs(0), 100000, 100000, 100000, 100000, 20,
                            40, 50, 0)),
                  0)

MonitorIdle ==
    [pc |-> "idle", attached |-> FALSE, d |-> InitialPosition, price |-> 0,
     exit_reason |-> "",
     originals |-> [original_signal |-> 0, original_signal_time |-> None,
                    trend_continuation_count |-> 0]]

HandlerIdle == [pc |-> "idle", clear_history |-> FALSE]

InitRace ==
    /\ \E signal \in {1, -1} :
        /\ current_position = RacePosition(signal)
        /\ signal_history_file =
             save_signal_history(current_position, signal, 100000,
                                 current_position.take_profit1,
                                 current_position.take_profit2, 0)
    /\ position_file = save_position_state(current_position)
    /\ oi_history = <<>>
    /\ oi_changes_history \in
         { <<>>,
           <<[timestamp |-> UtcNow(0), oi_change |-> -100],
             [timestamp |-> UtcNow(0), oi_change |-> -100]>> }
    /\ now \in {0, HoursPerStep}
    /\ last = Observed("init", InitialPosition, 0, 0, NoResult)
    /\ oi_sync = OiSyncIdle
    /\ call = [fn |-> "race", m |-> MonitorIdle, h |-> HandlerIdle,
               notifications |-> 0, cleared |-> FALSE]

\* the dict monitor_position's `pos` names
MonitorPos ==
    IF call.m.attached THEN current_position ELSE call.m.d

\* an assignment of a new dict to self.current_position by the handler:
\* monitor_position's pos keeps the old one
DetachMonitor(m) ==
    IF m.attached THEN [m EXCEPT !.attached = FALSE, !.d = current_position]
    ELSE m

\* lines 1186-1188: pos is bound; a flat position returns False
MonitorStart ==
    /\ call.m.pc = "idle"
    /\ \E current_price \in {92000, 100000, 104000, 108000} :
        call' = [call EXCEPT
                   !.m = IF current_position.status = "none"
                         THEN MonitorIdle
                         ELSE [MonitorIdle EXCEPT !.pc = "measure",
                                                  !.attached = TRUE,
                                                  !.price = current_price]]
    /\ UNCHANGED <<current_position, position_file, signal_history_file,
                   oi_history, oi_changes_history, now, last, oi_sync>>

\* lines 1190-1204: hold_hours and current_pnl_pct are computed from pos
\* and written to self.current_position
MonitorMeasure ==
    /\ call.m.pc = "measure"
    /\ current_position' =
         [current_position EXCEPT
            !.hold_hours = now - MonitorPos.entry_time.t,
            !.current_pnl_pct = PnlPct(MonitorPos, call.m.price)]
    /\ call' = [call EXCEPT !.m.pc = "arm"]
    /\ UNCHANGED <<position_file, signal_history_file, oi_history,
                   oi_changes_history, now, last, oi_sync>>

\* lines 1210-1220
MonitorArm ==
    /\ call.m.pc = "arm"
    /\ current_position' =
         IF /\ TimeStopEligible(MonitorPos, call.m.price,
                                now - MonitorPos.entry_time.t)
            /\ ~MonitorPos.time_stop_activated
         THEN [current_position EXCEPT !.time_stop_activated = TRUE]
         ELSE current_position
    /\ call' = [call EXCEPT !.m.pc = "decide"]
    /\ UNCHANGED <<position_file, signal_history_file, oi_history,
                   oi_changes_history, now, last, oi_sync>>

\* lines 1233-1415: the exit decision; the TP1 branch writes its flags to
\* self.current_position and returns (or raises at the mask)
MonitorDecide ==
    /\ call.m.pc = "decide"
    /\ LET view == [MonitorPos EXCEPT
                      !.trail_stop = current_position.trail_stop]
           df == Frame(200,
                       Row(IndexTs(now - 1), 104000, 96000, 100000, 100000,
                           60, 50, 0, 0),
                       Row(IndexTs(now), 104000, 96000, 100000, 100000, 60,
                           50, 0, 0))
           d == ExitDecision(view, call.m.price, df,
                             OiTurnDown(oi_changes_history))
       IN  /\ current_position' =
                IF d.tp1_now
                THEN [current_position EXCEPT
                        !.tp1_achieved = d.pos.tp1_achieved,
                        !.stop_loss = d.pos.stop_loss,
                        !.breakeven_activated = d.pos.breakeven_activated,
                        !.trail_stop = d.pos.trail_stop]
                ELSE current_position
           /\ call' = [call EXCEPT
                         !.m = IF d.exit_reason # ""
                               THEN [@ EXCEPT !.pc = "notify",
                                              !.exit_reason = d.exit_reason]
                               ELSE MonitorIdle]
    /\ UNCHANGED <<position_file, signal_history_file, oi_history,
                   oi_changes_history, now, last, oi_sync>>

\* lines 1418-1435: the close notification, then the trend fields are read
\* from pos
MonitorNotify ==
    /\ call.m.pc = "notify"
    /\ call' = [call EXCEPT
                  !.notifications = @ + 1,
                  !.m.pc = "close",
                  !.m.originals =
                      [original_signal |-> MonitorPos.original_signal,
                       original_signal_time |->
                           MonitorPos.original_signal_time,
                       trend_continuation_count |->
                           MonitorPos.trend_continuation_count]]
    /\ UNCHANGED <<current_position, position_file, signal_history_file,
                   oi_history, oi_changes_history, now, last, oi_sync>>

\* lines 1437-1466: the flat dict is assigned and saved
MonitorClose ==
    /\ call.m.pc = "close"
    /\ current_position' = ClosedPosition(call.m.originals)
    /\ position_file' = save_position_state(current_position')
    /\ call' = [call EXCEPT !.m = MonitorIdle]
    /\ UNCHANGED <<signal_history_file, oi_history, oi_changes_history, now,
                   last, oi_sync>>

\* lines 519-525: /close or /clear arrives; flat returns
HandlerStart ==
    /\ call.h.pc = "idle"
    /\ \E clear_history \in BOOLEAN :
        call' = [call EXCEPT
                   !.h = IF current_position.status = "none"
                         THEN HandlerIdle
                         ELSE [pc |-> "notify",
                               clear_history |-> clear_history]]
    /\ UNCHANGED <<current_position, position_file, signal_history_file,
                   oi_history, oi_changes_history, now, last, oi_sync>>

\* lines 535-554: /clear removes the history file and zeroes the trend
\* fields of self.current_position; the close notification
HandlerNotify ==
    /\ call.h.pc = "notify"
    /\ IF call.h.clear_history
       THEN /\ signal_history_file' = NoSignalHistoryFile
            /\ current_position' =
                 [current_position EXCEPT
                    !.original_signal = 0,
                    !.original_signal_time = None,
                    !.original_tp1 = 0,
                    !.original_tp2 = 0,
                    !.trend_continuation_count = 0]
       ELSE UNCHANGED <<signal_history_file, current_position>>
    /\ call' = [call EXCEPT
                  !.notifications = @ + 1,
                  !.cleared = @ \/ call.h.clear_history,
                  !.h.pc = "close"]
    /\ UNCHANGED <<position_file, oi_history, oi_changes_history, now, last,
                   oi_sync>>

\* lines 557-582: the flat dict, with the trend fields read from
\* self.current_position, is assigned and saved
HandlerClose ==
    /\ call.h.pc = "close"
    /\ current_position' =
         [InitialPosition EXCEPT
            !.original_tp1 = IF call.h.clear_history THEN 0
                             ELSE current_position.original_tp1,
            !.original_tp2 = IF call.h.clear_history THEN 0
                             ELSE current_position.original_tp2,
            !.original_signal = IF call.h.clear_history THEN 0
                                ELSE current_position.original_signal,
            !.original_signal_time =
                IF call.h.clear_history THEN None
                ELSE current_position.original_signal_time,
            !.trend_continuation_count =
                IF call.h.clear_history THEN 0
                ELSE current_position.trend_continuation_count]
    /\ position_file' = save_position_state(current_position')
    /\ call' = [call EXCEPT !.h = HandlerIdle,
                            !.m = DetachMonitor(call.m)]
    /\ UNCHANGED <<signal_history_file, oi_history, oi_changes_history, now,
                   last, oi_sync>>

NextRace ==
    \/ MonitorStart
    \/ MonitorMeasure
    \/ MonitorArm
    \/ MonitorDecide
    \/ MonitorNotify
    \/ MonitorClose
    \/ HandlerStart
    \/ HandlerNotify
    \/ HandlerClose

SpecRace == InitRace /\ [][NextRace]_vars

(***************************************************************************)
(* The program stopped at any point and started again: __init__ builds the *)
(* flat position and empty deques (lines 93-125), then runs                *)
(* load_position_state and load_signal_history (lines 145-146).            *)
(***************************************************************************)
Restart ==
    /\ \E confirm \in BOOLEAN :
        LET loaded == load_position_state(position_file, confirm)
            asked == position_file.exists
                       /\ position_file.position.status # "none"
        IN  /\ asked \/ confirm
            /\ current_position' =
                 load_signal_history(loaded.pos, signal_history_file)
            /\ position_file' = loaded.file
            /\ last' = Observed(IF confirm THEN "restart_y" ELSE "restart_n",
                                current_position, 0, 0, NoResult)
    /\ oi_history' = <<>>
    /\ oi_changes_history' = <<>>
    /\ UNCHANGED <<signal_history_file, now, aux>>

\* the monitoring loop and the Telegram thread with restarts in between;
\* the OI collector is left out (the deques are not persisted)
NextRestart ==
    \/ SignalCheck
    \/ Monitor
    \/ ManualClose
    \/ ClockAdvance
    \/ Restart

SpecRestart == Init /\ [][NextRestart]_vars

(***************************************************************************)
(* Direct calls of open_position(signal, entry_price, reason, df_price):   *)
(* the method applied to a position the program can hold, with and without *)
(* the optional df_price argument.                                         *)
(***************************************************************************)
\* df_price=None (the default of the parameter, line 993)
NoFrame ==
    [present |-> FALSE, len |-> 0,
     latest |-> Row(None, 0, 0, 0, 0, 0, 0, 0, 0),
     current |-> Row(None, 0, 0, 0, 0, 0, 0, 0, 0)]

\* positions the program holds at some time: never opened; opened at 100.0
\* at hour 0; the same armed by the time stop and past TP1; closed by
\* monitor_position; closed by /close
PositionSamples ==
    LET df == Frame(200,
                    Row(IndexTs(-1), 101000, 99000, 100000, 99500, 20, 40,
                        50, 0),
                    Row(IndexTs(0), 100000, 100000, 100000, 100000, 20, 40,
                        50, 0))
        opened(s) == open_position(InitialPosition, s, 100000, df, 0)
        past_tp1(s) ==
            [Tp1Reached(opened(s), 100000 + s * 4000, df).pos
                EXCEPT !.time_stop_activated = TRUE]
    IN  {InitialPosition}
        \cup UNION { { opened(s), past_tp1(s), ClosedPosition(opened(s)),
                       handle_manual_close(opened(s), FALSE) } :
                     s \in {1, -1} }

\* the frames a call can be given: those of a signal check, one of a single
\* candle, and none
OpenFrames(t) ==
    SignalFrames(t)
    \cup { Frame(1, Row(IndexTs(t), 100000, 100000, 100000, 100000, 20, 40,
                        50, 0),
                 Row(IndexTs(t), 100000, 100000, 100000, 100000, 20, 40,
                     50, 0)),
           NoFrame }

InitOpen ==
    /\ current_position \in PositionSamples
    /\ position_file = save_position_state(current_position)
    /\ signal_history_file = NoSignalHistoryFile
    /\ oi_history = <<>>
    /\ oi_changes_history = <<>>
    /\ now \in {0, HoursPerStep}
    /\ last = Observed("init", InitialPosition, 0, 0, NoResult)
    /\ oi_sync = OiSyncIdle
    /\ call = NoCall

OpenCall ==
    /\ call.fn = "none"
    /\ \E signal \in {1, -1}, entry_price \in EntryPrices,
          df \in OpenFrames(now) :
        LET new == open_position(current_position, signal, entry_price,
                                 df, now)
        IN  /\ current_position' = new
            /\ position_file' = save_position_state(new)
            /\ signal_history_file' =
                 IF ~is_same_trend_continuation(current_position, signal)
                 THEN save_signal_history(new, signal, entry_price,
                          new.take_profit1, new.take_profit2, now)
                 ELSE signal_history_file
            /\ call' = [fn |-> "open_position", pos |-> current_position,
                        signal |-> signal, entry_price |-> entry_price,
                        df |-> df]
    /\ UNCHANGED <<oi_history, oi_changes_history, now, last, oi_sync>>

NextOpen == OpenCall

SpecOpen == InitOpen /\ [][NextOpen]_vars

(***************************************************************************)
(* Mutations used to check that the properties below depend on the code    *)
(* they are about are defined next to the definitions they replace.        *)
(***************************************************************************)

\* the thread that runs an operation on the position: the handlers of
\* /close and /clear run on the Telegram polling thread (lines 403, 481-501),
\* open_position and monitor_position on the monitoring thread (line 1606)
ThreadOf(op) ==
    IF op \in {"close", "clear"} THEN "telegram_thread" ELSE "monitor_thread"

\* a step of monitor_position that closed the position
AutoCloseStep ==
    /\ current_position.status # "none"
    /\ last'.op = "monitor"
    /\ last'.ret

\* a step of open_position on a signal in the direction of the remembered
\* original_signal
ContinuationOpenStep ==
    /\ current_position.status = "none"
    /\ last'.op = "open"
    /\ current_position.original_signal # 0
    /\ last'.signal = current_position.original_signal

(***************************************************************************)
(* C1: open_position is invoked only while the position is flat, so an     *)
(* open position is never replaced by another open.                        *)
(***************************************************************************)
C1_OpenOnlyWhileFlat ==
    last.op = "open" => last.was.status = "none"

C1_Witness ==
    /\ last.op = "open"
    /\ current_position.status = "short"
    /\ current_position.trend_continuation_count = 1

(***************************************************************************)
(* C2: with time_stop_activated set and the two most recent OI changes     *)
(* negative, the tick closes with TIME_OI_STOP whatever the stop-loss and  *)
(* take-profit conditions are.                                             *)
(***************************************************************************)
C2_TimeOiStopFirst ==
    (/\ last.op = "monitor"
     /\ last.was.status # "none"
     /\ last.was.time_stop_activated
     /\ last.oi_turn_down)
    => (/\ last.exit_reason = "TIME_OI_STOP"
        /\ last.ret
        /\ current_position.status = "none")

C2_Witness ==
    /\ last.op = "monitor"
    /\ last.was.time_stop_activated
    /\ last.oi_turn_down
    /\ last.was.sl_hit
    /\ last.exit_reason = "TIME_OI_STOP"

(***************************************************************************)
(* C3 (as claimed): the tick that sets time_stop_activated does not close  *)
(* the position with TIME_OI_STOP.                                         *)
(***************************************************************************)
C3_ArmingTickDoesNotExit ==
    (last.op = "monitor" /\ last.armed_now)
    => last.exit_reason # "TIME_OI_STOP"

(***************************************************************************)
(* C4 (as claimed): with breakeven_activated, a tick on which the price is *)
(* back at the moved stop-loss (and no TIME_OI_STOP fires) closes with     *)
(* BREAK_EVEN.                                                             *)
(***************************************************************************)
C4_BreakEvenExit ==
    (/\ last.op = "monitor"
     /\ last.was.breakeven_activated
     /\ last.was.sl_hit
     /\ last.exit_reason # "TIME_OI_STOP")
    => last.exit_reason = "BREAK_EVEN"

(***************************************************************************)
(* C5 (as claimed): the tick that reaches TP1 sets tp1_achieved, moves     *)
(* stop_loss to entry*1.001 (long) / entry*0.999 (short) with              *)
(* breakeven_activated, sets a non-zero trail_stop, keeps the status and   *)
(* returns without closing.                                                *)
(***************************************************************************)
C5_Tp1Arms ==
    (last.op = "monitor" /\ last.tp1_now)
    => (/\ current_position.tp1_achieved
        /\ current_position.breakeven_activated
        /\ current_position.stop_loss * 1000 =
             current_position.entry_price
               * (IF current_position.status = "long" THEN 1001 ELSE 999)
        /\ current_position.trail_stop # 0
        /\ current_position.status = last.was.status
        /\ last.exit_reason = ""
        /\ ~last.ret
        /\ ~last.raised)

(***************************************************************************)
(* C6: a tick on which no TIME_OI_STOP fires and the price is at or beyond *)
(* stop_loss closes with SL; no take-profit branch runs.                   *)
(***************************************************************************)
C6_StopLossExit ==
    (/\ last.op = "monitor"
     /\ last.was.sl_hit
     /\ last.exit_reason # "TIME_OI_STOP")
    => (/\ last.exit_reason = "SL"
        /\ last.ret
        /\ ~last.tp1_now
        /\ current_position.status = "none")

C6_Witness ==
    /\ last.op = "monitor"
    /\ last.was.sl_hit
    /\ last.was.breakeven_activated
    /\ last.exit_reason = "SL"

(***************************************************************************)
(* C7: a TP2 close happens only on a tick that started with tp1_achieved   *)
(* and has profit_pct >= tp2_rate; never on the tick that reaches TP1.     *)
(***************************************************************************)
C7_Tp2OnlyAfterTp1 ==
    /\ (last.op = "monitor" /\ last.exit_reason = "TP2")
         => (last.was.tp1_achieved /\ last.was.tp2_hit /\ ~last.tp1_now)
    /\ (last.op = "monitor" /\ last.tp1_now)
         => (last.exit_reason = "" /\ current_position.status # "none")

C7_Witness ==
    /\ last.op = "monitor"
    /\ last.tp1_now
    /\ last.was.tp2_hit
    /\ current_position.status = "long"

C7_WitnessTp2 ==
    last.op = "monitor" /\ last.exit_reason = "TP2"

C9_AutoCloseFrame ==
    [][AutoCloseStep =>
        (/\ current_position'.status = "none"
         /\ current_position'.entry_price = 0
         /\ current_position'.entry_time = None
         /\ current_position'.stop_loss = 0
         /\ current_position'.take_profit1 = 0
         /\ current_position'.take_profit2 = 0
         /\ current_position'.trail_stop = 0
         /\ ~current_position'.tp1_achieved
         /\ ~current_position'.breakeven_activated
         /\ ~current_position'.time_stop_activated
         /\ current_position'.original_signal
              = current_position.original_signal
         /\ current_position'.original_signal_time
              = current_position.original_signal_time
         /\ current_position'.trend_continuation_count
              = current_position.trend_continuation_count
         /\ position_file'.exists
         /\ position_file'.position.status = "none"
         /\ position_file'.position.original_signal
              = current_position.original_signal
         /\ position_file'.position.trend_continuation_count
              = current_position.trend_continuation_count
         /\ position_file'.position.stop_loss = 0
         /\ position_file'.position.entry_price = 0)]_vars

C9_Witness ==
    /\ last.op = "monitor"
    /\ last.ret
    /\ current_position.status = "none"
    /\ current_position.original_signal = -1
    /\ current_position.trend_continuation_count = 1

C11_FreshOpen ==
    (/\ call.fn = "open_position"
     /\ \/ call.pos.original_signal = 0
        \/ call.pos.original_signal = -call.signal)
    => LET e == call.entry_price
           s == call.signal
       IN  /\ current_position.status = IF s > 0 THEN "long" ELSE "short"
           /\ current_position.entry_price = e
           /\ current_position.stop_loss * 1000 = e * (1000 - s * PARAMS.sl)
           /\ current_position.take_profit1 * 1000
                = e * (1000 + s * PARAMS.tp1)
           /\ current_position.take_profit2 * 1000
                = e * (1000 + s * PARAMS.tp2)
           /\ current_position.trend_continuation_count = 0
           /\ current_position.original_signal = s
           /\ current_position.original_tp1 = current_position.take_profit1
           /\ current_position.original_tp2 = current_position.take_profit2

C11_Witness ==
    /\ call.fn = "open_position"
    /\ call.pos.original_signal = -1
    /\ call.signal = 1
    /\ current_position.entry_price = 100000
    /\ current_position.stop_loss = 97000
    /\ current_position.take_profit1 = 104000
    /\ current_position.take_profit2 = 108000
    /\ current_position.original_signal = 1
    /\ current_position.trend_continuation_count = 0

(***************************************************************************)
(* C13: every open_position call leaves tp1_achieved, breakeven_activated  *)
(* and time_stop_activated false, trail_stop = 0 and entry_time set to the *)
(* time of the call, whatever the earlier position was; position_size is   *)
(* the size the score of the closed candle maps to, or the base 0.30 when  *)
(* no frame (or a frame of fewer than two candles) is passed.              *)
(***************************************************************************)
C13_OpenResetsFlags ==
    call.fn = "open_position"
    => /\ ~current_position.tp1_achieved
       /\ ~current_position.breakeven_activated
       /\ ~current_position.time_stop_activated
       /\ current_position.trail_stop = 0
       /\ current_position.entry_time = UtcNow(now)
       /\ IF call.df.present /\ call.df.len >= 2
          THEN LET r == call.df.latest
                   score == calculate_dynamic_position_score(
                                r.c, r.l, r.h, r.ma20, r.bandwidth, r.coo,
                                r.oi_change_pct, r.oi_price_divergence)
               IN  /\ current_position.position_size \in {25, 28, 30, 32, 35}
                   /\ score.total_score >= 70
                        <=> current_position.position_size = 35
                   /\ score.total_score < 25
                        <=> current_position.position_size = 25
          ELSE current_position.position_size = 30

\* an open on top of a position past TP1 and armed, at a later hour, with
\* no frame
C13_Witness ==
    /\ call.fn = "open_position"
    /\ call.pos.tp1_achieved
    /\ call.pos.breakeven_activated
    /\ call.pos.time_stop_activated
    /\ call.pos.entry_time = UtcNow(0)
    /\ ~call.df.present
    /\ now = HoursPerStep
    /\ current_position.entry_time = UtcNow(HoursPerStep)
    /\ current_position.position_size = 30

\* an open sized by the score: a squeeze breakout scored 70 or more
C13_WitnessScored ==
    /\ call.fn = "open_position"
    /\ call.df.present
    /\ current_position.position_size = 35

(***************************************************************************)
(* C12 (as claimed): when a position opened as a fresh trend has been      *)
(* closed by monitor_position and the next open is in the same direction,  *)
(* the new position is a continuation whose take_profit1/2 are the targets *)
(* computed at the fresh entry (the ones save_signal_history recorded).    *)
(***************************************************************************)
C12_ReentryKeepsTargets ==
    [][(/\ ContinuationOpenStep
        /\ last.op = "monitor"
        /\ last.ret)
       => (/\ current_position'.trend_continuation_count
                = current_position.trend_continuation_count + 1
           /\ signal_history_file.exists
           /\ current_position'.take_profit1 = signal_history_file.tp1_price
           /\ current_position'.take_profit2 = signal_history_file.tp2_price)
      ]_vars

(***************************************************************************)
(* C14 (as claimed): after every completed operation on the position       *)
(* (open, a monitoring tick that returned, a manual close) the position    *)
(* file holds the status, stop_loss, trail_stop, tp1_achieved,             *)
(* breakeven_activated and time_stop_activated of the position in memory.  *)
(***************************************************************************)
C14_PersistedAfterMutation ==
    (/\ last.op \in {"open", "monitor", "close", "clear"}
     /\ ~last.raised)
    => LET f == position_file.position
       IN  /\ f.status = current_position.status
           /\ f.stop_loss = current_position.stop_loss
           /\ f.trail_stop = current_position.trail_stop
           /\ f.tp1_achieved = current_position.tp1_achieved
           /\ f.breakeven_activated = current_position.breakeven_activated
           /\ f.time_stop_activated = current_position.time_stop_activated

(***************************************************************************)
(* C15 (as claimed): when the position file holds the position in memory   *)
(* (save_position_state was the last write), a restart in which the        *)
(* operator confirms the restore yields a current_position equal to it     *)
(* field by field (times compared by their instant).                       *)
(***************************************************************************)
C15_RoundTrip ==
    [][(/\ last'.op = "restart_y"
        /\ position_file = save_position_state(current_position))
       => (/\ [current_position' EXCEPT !.entry_time = 0,
                                        !.original_signal_time = 0]
               = [current_position EXCEPT !.entry_time = 0,
                                          !.original_signal_time = 0]
           /\ current_position'.entry_time.t = current_position.entry_time.t
           /\ current_position'.original_signal_time.t
                = current_position.original_signal_time.t)
      ]_vars

(***************************************************************************)
(* C16 (as claimed): current_position and the position file are written    *)
(* only by the monitoring loop's thread.                                   *)
(***************************************************************************)
C16_SingleWriter ==
    [][(\/ current_position' # current_position
        \/ position_file' # position_file)
       => ThreadOf(last'.op) = "monitor_thread"]_vars

(***************************************************************************)
(* C17: a reader holding oi_lock sees one change per sample except the     *)
(* first (as many as the deque can hold), and once two samples have been   *)
(* recorded the newest change carries the timestamp of the newest sample.  *)
(***************************************************************************)
C17_SampleHasChange ==
    oi_sync.lock = "main"
    => LET samples == Len(oi_sync.log)
       IN  /\ samples >= 1
                => Len(oi_changes_history) = Min({OiMaxLen, samples - 1})
           /\ samples >= 2
                => oi_changes_history[Len(oi_changes_history)].timestamp
                     = oi_history[Len(oi_history)].timestamp

\* a reader holds the lock after the deques have wrapped
C17_Witness ==
    /\ oi_sync.lock = "main"
    /\ Len(oi_sync.log) > OiMaxLen
    /\ Len(oi_history) = OiMaxLen
    /\ Len(oi_changes_history) = OiMaxLen
    /\ oi_changes_history[OiMaxLen].timestamp = UtcNow(Len(oi_sync.log))

(***************************************************************************)
(* C18: neither deque ever holds more than its capacity; a full deque      *)
(* drops its oldest entry on append, and what remains is the most recent   *)
(* entries in the order they were appended.                                *)
(***************************************************************************)
C18_BoundedInOrder ==
    LET samples == Len(oi_sync.log)
        kept == Min({OiMaxLen, samples})
    IN  /\ Len(oi_history) <= OiMaxLen
        /\ Len(oi_changes_history) <= OiMaxLen
        /\ Len(oi_history) = kept
        /\ \A i \in 1..kept : oi_history[i] = oi_sync.log[samples - kept + i]
        /\ \A i \in 1..(Len(oi_changes_history) - 1) :
             oi_changes_history[i].timestamp.t
               < oi_changes_history[i + 1].timestamp.t

\* more samples than the capacity have been appended: the oldest is gone
C18_Witness ==
    /\ Len(oi_sync.log) = OiMaxLen + 2
    /\ Len(oi_history) = OiMaxLen
    /\ Len(oi_changes_history) = OiMaxLen
    /\ oi_history[1] = oi_sync.log[3]
    /\ oi_history[1] # oi_sync.log[1]

(***************************************************************************)
(* C19: with fewer than 12 samples in oi_history,                          *)
(* calculate_hourly_oi_change returns an OI change of 0, whatever the      *)
(* samples' values and timestamps.                                         *)
(***************************************************************************)
C19_FewSamplesNoChange ==
    (call.fn = "calculate_hourly_oi_change" /\ Len(oi_history) < 12)
    => call.result.oi_change_pct = 0

\* 11 rising samples, the oldest more than an hour old
C19_Witness ==
    /\ call.fn = "calculate_hourly_oi_change"
    /\ Len(oi_history) = 11
    /\ oi_history[1].open_interest < oi_history[11].open_interest
    /\ oi_history[1].timestamp.t <= oi_sync.n - 12
    /\ call.result.oi_change_pct = 0

\* 12 rising samples: the change is computed
C19_WitnessEnough ==
    /\ call.fn = "calculate_hourly_oi_change"
    /\ Len(oi_history) = 12
    /\ call.result.oi_change_pct > 0

C21_OiHardVeto ==
    (/\ call.fn = "check_signal"
     /\ call.df.len >= 50)
    => LET r == call.df.latest
           bull == r.l <= r.ma20 /\ r.c > r.ma20
           bear == r.h >= r.ma20 /\ r.c < r.ma20
           candidate ==
               IF r.bandwidth < PARAMS.squeeze
               THEN IF bull /\ r.coo > 30 THEN 1
                    ELSE IF bear /\ r.coo < 60 THEN -1 ELSE 0
               ELSE IF r.coo > 80 /\ bull THEN 1
                    ELSE IF r.coo < 20 /\ bear THEN -1 ELSE 0
           change_low == r.oi_change_pct < PARAMS.oi_change_filter
           div_low == r.oi_price_divergence < PARAMS.oi_change_filter
       IN  /\ (change_low \/ div_low) => call.result.signal = 0
           /\ (candidate # 0 /\ change_low)
                  => call.result.reason = "oi_change"
           /\ (candidate # 0 /\ ~change_low /\ div_low)
                  => call.result.reason = "oi_divergence"
           /\ (~change_low /\ ~div_low) => call.result.signal = candidate

\* a squeezed bull breakout vetoed by the divergence alone
C21_Witness ==
    /\ call.fn = "check_signal"
    /\ call.df.latest.bandwidth < PARAMS.squeeze
    /\ call.df.latest.oi_change_pct >= PARAMS.oi_change_filter
    /\ call.df.latest.oi_price_divergence < PARAMS.oi_change_filter
    /\ call.result = [signal |-> 0, reason |-> "oi_divergence"]

\* a candidate with both values exactly at the floor is returned
C21_WitnessAtFloor ==
    /\ call.fn = "check_signal"
    /\ call.df.latest.oi_change_pct = PARAMS.oi_change_filter
    /\ call.df.latest.oi_price_divergence = PARAMS.oi_change_filter
    /\ call.result.signal = -1

(***************************************************************************)
(* C23: the signal returned by check_signal does not depend on the         *)
(* in-progress candle: two candle windows that are identical except for    *)
(* the values of the last candle, evaluated with the same OI buffer state, *)
(* yield the same signal.                                                  *)
(***************************************************************************)
C23_IgnoresOpenCandle ==
    (/\ call.fn = "check_signal_pair"
     /\ call.a.len = call.b.len
     /\ [call.a.latest EXCEPT !.oi_change_pct = 0,
                              !.oi_price_divergence = 0]
          = [call.b.latest EXCEPT !.oi_change_pct = 0,
                                  !.oi_price_divergence = 0])
    => call.result_a.signal = call.result_b.signal

(***************************************************************************)
(* C24: calculate_dynamic_position_score returns                           *)
(* total = max(0, min(100, coo_score + bw_score + oi_score + break_score)),*)
(* where the four sub-scores are those it reports in details and lie in    *)
(* 0..25, 0..30, -15..25 and 0..20, for every input.                       *)
(***************************************************************************)
C24_TotalIsClampedSum ==
    call.fn = "calculate_dynamic_position_score"
    => LET d == call.result.details
           sum == d.coo_score + d.bw_score + d.oi_score + d.break_score
       IN  /\ d.coo_score \in 0..25
           /\ d.bw_score \in 0..30
           /\ d.oi_score \in (-15)..25
           /\ d.break_score \in 0..20
           /\ call.result.total_score =
                  (IF sum > 100 THEN 100 ELSE IF sum < 0 THEN 0 ELSE sum)

(***************************************************************************)
(* C25: get_dynamic_position_size_v2 maps score 70-100 to 0.35, 55-69 to   *)
(* 0.32, 40-54 to 0.30, 25-39 to 0.28 and 0-24 to 0.25, and no lower score *)
(* gets a larger size.                                                     *)
(***************************************************************************)
C25_FiveTiers ==
    call.fn = "get_dynamic_position_size_v2"
    => /\ call.result =
            (IF call.score \in 70..100 THEN 35
             ELSE IF call.score \in 55..69 THEN 32
             ELSE IF call.score \in 40..54 THEN 30
             ELSE IF call.score \in 25..39 THEN 28
             ELSE 25)
       /\ \A lower \in 0..call.score :
            get_dynamic_position_size_v2(lower) <= call.result

\* the lowest score of the top tier
C25_Witness ==
    /\ call.fn = "get_dynamic_position_size_v2"
    /\ call.score = 70
    /\ call.result = 35

(***************************************************************************)
(* C26: an error in one iteration of monitoring_loop (no candles, an       *)
(* exception of the indicator computation or of monitor_position) never    *)
(* ends the loop: the loop is left only with is_running false, and after   *)
(* the cooldown sleep the next iteration is entered unless is_running has  *)
(* been cleared.                                                           *)
(***************************************************************************)
C26_ErrorNeverEndsLoop ==
    /\ [](call.pc = "exited" => ~call.is_running)
    /\ (call.pc \in {"cooldown_fetch", "cooldown_error"} /\ call.is_running)
           ~> (call.pc = "body" \/ ~call.is_running)

\* monitor_position raised and the loop is in the sleep of line 1602
C26_Witness ==
    /\ call.pc = "cooldown_error"
    /\ call.is_running
    /\ call.it.monitored
    /\ call.it.outcome = "error"

\* no candles: the sleep of line 1549
C26_WitnessFetch ==
    /\ call.pc = "cooldown_fetch"
    /\ call.is_running
    /\ call.it.outcome = "fetch_failed"

(***************************************************************************)
(* C22: on a candle window of fewer than 50 candles check_signal returns   *)
(* signal 0 with the insufficient-data reason without raising, and the     *)
(* iteration of the monitoring loop that made the check opens no position: *)
(* the position and both files are left as they were.                      *)
(***************************************************************************)
C22_ShortWindowNoSignal ==
    [][(/\ call.pc = "body"
        /\ call'.pc # "body"
        /\ call'.it.checked
        /\ call'.it.df_len < 50)
       => /\ call'.it.result = [signal |-> 0, reason |-> "insufficient"]
          /\ call'.it.outcome = "ok"
          /\ ~call'.it.opened
          /\ current_position' = current_position
          /\ position_file' = position_file
          /\ signal_history_file' = signal_history_file]_vars

\* a signal check on 49 candles whose closed candle is a squeezed breakout
C22_Witness ==
    /\ call.it.checked
    /\ call.it.df_len = 49
    /\ call.it.result.reason = "insufficient"
    /\ current_position.status = "none"

(***************************************************************************)
(* C27: in each iteration of monitoring_loop a signal check runs only if   *)
(* the position was flat, the wall-clock minute was 1 and no check had     *)
(* been made in that hour when the iteration started, and                  *)
(* monitor_position runs only if the position was not flat then.           *)
(***************************************************************************)
C27_WhenChecksRun ==
    /\ call.it.checked
         => /\ call.it.flat_at_start
            /\ call.it.minute = 1
            /\ ~call.it.checked_before
    /\ call.it.monitored => ~call.it.flat_at_start

\* a signal check ran
C27_Witness ==
    /\ call.it.checked
    /\ call.it.minute = 1
    /\ call.it.flat_at_start

\* a second iteration in minute 1 of an hour already checked, flat: no
\* check
C27_WitnessSecond ==
    /\ call.it.outcome = "ok"
    /\ call.it.minute = 1
    /\ call.it.flat_at_start
    /\ call.it.checked_before
    /\ ~call.it.checked

\* monitor_position ran on a position /close had closed after the
\* iteration started
C27_WitnessClosedMeanwhile ==
    /\ call.it.monitored
    /\ ~call.it.flat_at_start
    /\ call.pc = "sleep"
    /\ current_position.status = "none"
    /\ position_file.exists

(***************************************************************************)
(* C28: with at least 12 samples, calculate_hourly_oi_change takes as      *)
(* reference the newest sample other than the latest whose timestamp is at *)
(* most now - 1h, or, if there is none, the 12th-most-recent sample, and   *)
(* returns (latest - reference)/reference, or 0 when the reference value   *)
(* is not positive.                                                        *)
(***************************************************************************)
C28_HourlyReference ==
    (/\ call.fn = "calculate_hourly_oi_change"
     /\ Len(oi_history) >= 12)
    => LET n == Len(oi_history)
           hour_old(i) == oi_history[i].timestamp.t <= oi_sync.n - 12
           is_reference(i) ==
               IF \E j \in 1..(n - 1) : hour_old(j)
               THEN /\ i < n
                    /\ hour_old(i)
                    /\ \A j \in (i + 1)..(n - 1) : ~hour_old(j)
               ELSE i = n - 11
       IN  \E i \in 1..n :
              /\ is_reference(i)
              /\ LET reference == oi_history[i].open_interest
                     latest == oi_history[n].open_interest
                 IN  call.result.oi_change_pct =
                         (IF reference > 0
                          THEN ((latest - reference) * 10000) \div reference
                          ELSE 0)

\* 12 rising samples two marks apart: the reference is the sixth, an hour
\* old, not the oldest
C28_Witness ==
    /\ call.fn = "calculate_hourly_oi_change"
    /\ Len(oi_history) = 12
    /\ oi_history[1].open_interest < oi_history[12].open_interest
    /\ oi_history[6].timestamp.t = oi_sync.n - 12
    /\ call.result.oi_change_pct =
           ((oi_history[12].open_interest - oi_history[6].open_interest)
               * 10000) \div oi_history[6].open_interest

\* 12 falling samples one mark apart, none an hour old: the reference is
\* the 12th-most-recent
C28_WitnessFallback ==
    /\ call.fn = "calculate_hourly_oi_change"
    /\ Len(oi_history) = 12
    /\ \A i \in 1..11 : oi_history[i].timestamp.t > oi_sync.n - 12
    /\ call.result.oi_change_pct < 0
    /\ call.result.oi_change_pct =
           ((oi_history[12].open_interest - oi_history[1].open_interest)
               * 10000) \div oi_history[1].open_interest

C29_WitnessZero ==
    /\ last.op = "monitor"
    /\ last.was.status # "none"
    /\ ~last.oi_turn_down
    /\ Len(oi_changes_history) = 2
    /\ oi_changes_history[1].oi_change < 0
    /\ oi_changes_history[2].oi_change = 0

\* a position opened while the two most recent changes are both negative
C29_WitnessEntry ==
    /\ last.op = "open"
    /\ current_position.status # "none"
    /\ OiTurnDown(oi_changes_history)

(***************************************************************************)
(* C30: every read of oi_history or oi_changes_history, length checks      *)
(* included, made by the main loop or by the collector thread is performed *)
(* while the reading thread holds oi_lock.                                 *)
(***************************************************************************)
C30_ReadsUnderLock ==
    call.fn = "read" => call.holder = call.thread

(***************************************************************************)
(* C31: after TP1 the trailing stop follows the best price reached since   *)
(* entry: on every later tick of the same position that does not close it, *)
(* trail_stop is at least the tick's price less trail_offset (the tick's   *)
(* price is a price reached, so the best price is at least that), and it   *)
(* never moves against the position.                                       *)
(***************************************************************************)
C31_TrailFollowsBest ==
    [][(/\ current_position.status # "none"
        /\ current_position.tp1_achieved
        /\ last'.op = "monitor"
        /\ last' # last
        /\ UNCHANGED <<oi_history, now>>
        /\ current_position'.status # "none")
       => IF current_position.status = "long"
          THEN /\ current_position'.trail_stop * 1000
                      >= last'.price * (1000 - PARAMS.trail_offset)
               /\ current_position'.trail_stop >= current_position.trail_stop
          ELSE /\ current_position'.trail_stop > 0
               /\ current_position'.trail_stop * 1000
                      <= last'.price * (1000 + PARAMS.trail_offset)
               /\ (current_position.trail_stop > 0
                     => current_position'.trail_stop
                            <= current_position.trail_stop)]_vars

(***************************************************************************)
(* C32: after /clear has been handled, original_signal is 0, original_tp1  *)
(* and original_tp2 are 0 and trend_continuation_count is 0, and the       *)
(* signal history file is gone, whether or not a position was open when    *)
(* the command arrived.                                                    *)
(***************************************************************************)
C32_ClearForgetsTrend ==
    last.op = "clear"
    => /\ current_position.original_signal = 0
       /\ current_position.original_tp1 = 0
       /\ current_position.original_tp2 = 0
       /\ current_position.trend_continuation_count = 0
       /\ ~signal_history_file.exists

(***************************************************************************)
(* C33 (as claimed): a manual /close of an open position leaves status     *)
(* 'none' and keeps original_signal, original_signal_time, original_tp1/2  *)
(* and trend_continuation_count; the next signal in the same direction     *)
(* opens as a continuation with a new stop-loss and the original targets,  *)
(* those computed at the trend's fresh open and written to the signal      *)
(* history file (line 1179); a /close while flat changes nothing.          *)
(***************************************************************************)
C33_ManualCloseKeepsTrend ==
    [][/\ (last'.op = "close" /\ last' # last)
          => IF current_position.status # "none"
             THEN current_position' =
                    [InitialPosition EXCEPT
                       !.original_signal = current_position.original_signal,
                       !.original_signal_time =
                           current_position.original_signal_time,
                       !.original_tp1 = current_position.original_tp1,
                       !.original_tp2 = current_position.original_tp2,
                       !.trend_continuation_count =
                           current_position.trend_continuation_count]
             ELSE UNCHANGED <<current_position, position_file,
                              signal_history_file>>
       /\ (/\ last.op = "close"
           /\ last.was.status # "none"
           /\ last'.op = "open"
           /\ last'.signal = current_position.original_signal)
          => /\ current_position'.trend_continuation_count
                   = current_position.trend_continuation_count + 1
             /\ current_position'.take_profit1 = signal_history_file.tp1_price
             /\ current_position'.take_profit2 = signal_history_file.tp2_price
             /\ current_position'.stop_loss * 1000 =
                   last'.price * (IF last'.signal > 0 THEN 970 ELSE 1030)]_vars

\* just after /close of an open position: flat, the trend remembered
C33_Witness ==
    /\ last.op = "close"
    /\ last.was.status # "none"
    /\ current_position.status = "none"
    /\ current_position.original_signal = 1
    /\ current_position.original_tp1 = 104000
    /\ current_position.original_tp2 = 108000

\* the continuation opened after a /close: short at 104.0 with the targets
\* of the first short at 100.0
C33_WitnessReopen ==
    /\ last.op = "open"
    /\ current_position.status = "short"
    /\ current_position.trend_continuation_count = 1
    /\ current_position.entry_price = 104000
    /\ current_position.take_profit1 = 96000
    /\ current_position.take_profit2 = 92000
    /\ current_position.stop_loss = 107120

(***************************************************************************)
(* C34: in every reachable state, those reached by interleaving            *)
(* handle_manual_close with a monitor_position tick in progress included,  *)
(* status = 'none' implies entry_price = 0, stop_loss = 0, trail_stop = 0  *)
(* and tp1_achieved, breakeven_activated and time_stop_activated false.    *)
(***************************************************************************)
C34_FlatIsClean ==
    current_position.status = "none"
    => /\ current_position.entry_price = 0
       /\ current_position.stop_loss = 0
       /\ current_position.trail_stop = 0
       /\ ~current_position.tp1_achieved
       /\ ~current_position.breakeven_activated
       /\ ~current_position.time_stop_activated

(***************************************************************************)
(* C35: each opened position is closed at most once: under any             *)
(* interleaving of a manual close with a monitoring tick that has read the *)
(* position at most one close notification is produced for it, and the     *)
(* trend fields zeroed by /clear are not written back by the automatic     *)
(* close.                                                                  *)
(***************************************************************************)
C35_ClosedOnce ==
    call.fn = "race"
    => /\ call.notifications <= 1
       /\ (call.cleared /\ call.m.pc = "idle" /\ call.h.pc = "idle")
              => /\ current_position.original_signal = 0
                 /\ current_position.trend_continuation_count = 0

(***************************************************************************)
(* C36: for every signal check_signal emits, the Scorer's score of the     *)
(* same closed row is at least 30 (at least 50 for a squeeze signal), so   *)
(* the position the loop opens has position_size 0.28, 0.30, 0.32 or 0.35: *)
(* the -15 divergence penalty and the 0.25 tier never apply to it.         *)
(***************************************************************************)
C36_OpenedSizeFloor ==
    (call.fn = "signal_open" /\ call.result.signal # 0)
    => /\ call.score >= 30
       /\ call.df.latest.bandwidth < PARAMS.squeeze => call.score >= 50
       /\ call.df.latest.oi_price_divergence >= -100
       /\ call.oi_score >= 0
       /\ current_position.status # "none"
       /\ current_position.position_size \in {28, 30, 32, 35}

\* an extreme signal with the lowest score, opened at 0.28
C36_Witness ==
    /\ call.fn = "signal_open"
    /\ call.result.signal # 0
    /\ call.score = 30
    /\ current_position.position_size = 28

\* a squeeze signal with the lowest score, 50
C36_WitnessSqueeze ==
    /\ call.fn = "signal_open"
    /\ call.result.signal # 0
    /\ call.df.latest.bandwidth < PARAMS.squeeze
    /\ call.score = 50
    /\ current_position.position_size = 30

(***************************************************************************)
(* C37: a signal check is never skipped: an iteration that runs in minute  *)
(* 1 of a wall-clock hour with the position flat, whose candle fetch does  *)
(* not fail, and before which no check was made in that hour of that day,  *)
(* executes check_signal -- also when the previous check was made at the   *)
(* same hour of day on an earlier day.                                     *)
(***************************************************************************)
C37_CheckNeverSkipped ==
    (call.fn = "monitoring_loop"
        /\ call.pc = "sleep"
        /\ call.it.minute = 1
        /\ call.it.flat_at_start
        /\ call.it.outcome = "ok"
        /\ ~call.it.checked_before)
    => call.it.checked

(***************************************************************************)
(* C38: time_stop_activated rises only on a tick on which hold_hours >=    *)
(* time_stop_hours and |profit_pct| <= cost_zone_pct hold together; a      *)
(* TIME_OI_STOP exit happens only with the flag set before the tick or     *)
(* risen on it; and the flag, once set, stays true while the position      *)
(* stays open, whatever the profit does afterwards.                        *)
(***************************************************************************)
C38_TimeStopLatched ==
    [][ LET pos == current_position
            held == /\ now - pos.entry_time.t >= PARAMS.time_stop_hours
                    /\ Abs(ProfitNum(pos, last'.price)) * 1000
                           <= PARAMS.cost_zone_pct * pos.entry_price
            exits == /\ pos.status # "none"
                     /\ current_position'.status = "none"
                     /\ last'.op = "monitor"
                     /\ last'.exit_reason = "TIME_OI_STOP"
        IN  /\ (~pos.time_stop_activated
                  /\ (current_position'.time_stop_activated \/ exits))
                => /\ last'.op = "monitor"
                   /\ pos.status # "none"
                   /\ held
            /\ (pos.status # "none" /\ pos.time_stop_activated
                  /\ current_position'.status # "none")
                => current_position'.time_stop_activated ]_vars

\* an armed position stays open and armed on a tick whose profit is outside
\* the cost zone
C38_Witness ==
    /\ last.op = "monitor"
    /\ last.was.time_stop_activated
    /\ current_position.status # "none"
    /\ current_position.time_stop_activated
    /\ Abs(ProfitNum(current_position, last.price)) * 1000
           > PARAMS.cost_zone_pct * current_position.entry_price

\* a TIME_OI_STOP exit of a position armed on an earlier tick, at a profit
\* outside the cost zone
C38_WitnessExit ==
    /\ last.op = "monitor"
    /\ last.exit_reason = "TIME_OI_STOP"
    /\ last.was.time_stop_activated
    /\ ~last.armed_now
    /\ last.price # 100000
    /\ last.price # 104000

(***************************************************************************)
(* C39: whenever a position is open, original_signal is non-zero and       *)
(* matches its direction (long: 1, short: -1), after any sequence of fresh *)
(* opens, continuation opens, automatic closes, /close, /clear and         *)
(* restarts that restore the saved position.                               *)
(***************************************************************************)
C39_OpenMatchesTrend ==
    /\ current_position.status = "long"
          => current_position.original_signal = 1
    /\ current_position.status = "short"
          => current_position.original_signal = -1

\* a restart has restored an open short and loaded its signal history
C39_Witness ==
    /\ last.op = "restart_y"
    /\ current_position.status = "short"
    /\ signal_history_file.exists
    /\ signal_history_file.signal_type = -1

\* a continuation open after a close
C39_WitnessContinuation ==
    /\ last.op = "open"
    /\ current_position.status # "none"
    /\ current_position.trend_continuation_count > 0

====
